---------------------------- MODULE Spec2Model ----------------------------
(***************************************************************************)
(* Pattern lifecycle pipeline of email_tracker_pixel: the pattern ledger   *)
(* (scripts/pattern_version_control.py) and the auto-update orchestrator   *)
(* (scripts/auto_update_orchestrator.py).                                  *)
(*                                                                         *)
(* Three specifications share the ledger state:                            *)
(*   Spec      one client calls the ledger API, one call per step;         *)
(*   SpecConc  client threads run commit_changes / rollback_to_commit on   *)
(*             one PatternVersionControl object, one statement group per   *)
(*             step (the object holds no lock);                            *)
(*   SpecOrch  the orchestrator's worker threads, one step per stage of a  *)
(*             loop iteration; SpecD is the health worker alone under a    *)
(*             persistently critical system (scenario D).                  *)
(***************************************************************************)
EXTENDS Integers, Sequences, FiniteSets, Bags, TLC

VARIABLES
    commits,            \* commits_dir: commit_id -> PatternCommit
    branches,           \* branches_dir: branch name -> head_commit
    rollbacks,          \* rollbacks_dir: rollback_id -> RollbackPoint
    snapshots,          \* snapshots_dir: commit_id -> snapshot data
    current_branch,     \* PatternVersionControl.current_branch
    head_commit,        \* PatternVersionControl.head_commit (in memory)
    nextId,             \* number of ids _generate_commit_id has handed out
    ret,                \* the last API call of Spec and what it returned
    tpc,                \* SpecConc: thread -> the statement it is at
    tloc,               \* SpecConc: thread -> the locals of its call
    ncalls,             \* SpecConc: calls that have returned a new commit
    config,             \* AutoUpdateOrchestrator.config (AutoUpdateConfig)
    running,            \* AutoUpdateOrchestrator.running
    rollback_count,     \* AutoUpdateOrchestrator.rollback_count
    last_update,        \* AutoUpdateOrchestrator.last_update
    health_history,     \* AutoUpdateOrchestrator.health_history
    pattern_engine,     \* AutoUpdateOrchestrator.pattern_engine: its indexes
    change_queue,       \* GitHubChangeMonitor.change_queue
    validation_queue,   \* AutoUpdateOrchestrator.validation_queue
    update_queue,       \* AutoUpdateOrchestrator.update_queue
    failure_log,        \* autoupdate/validation_failures.jsonl
    wpc,                \* worker thread -> the statement it is at
    wloc,               \* worker thread -> its locals
    nevents,            \* change events the monitor has queued so far
    npolls,             \* health samples taken so far
    cache,              \* cache_dir: source name -> content of its cache file
    sources,            \* GitHubChangeMonitor.sources: name -> GitHubSource
    mpc,                \* source name -> where its _monitor_source is at
    mloc,               \* source name -> the locals of its _monitor_source
    nchecks             \* _monitor_source calls started so far

vcsVars == <<commits, branches, rollbacks, snapshots, current_branch, head_commit, nextId>>

thrVars == <<tpc, tloc, ncalls>>

orchVars == <<config, running, rollback_count, last_update, health_history,
              pattern_engine, change_queue, validation_queue, update_queue,
              failure_log, wpc, wloc, nevents, npolls>>

monVars == <<cache, sources, mpc, mloc, nchecks>>

\* what the single client of Spec never touches
notApi == <<thrVars, orchVars, monVars>>

vars == <<vcsVars, ret, thrVars, orchVars, monVars>>

-----------------------------------------------------------------------------
(* Bounds of the model *)

\* ids handed out by _generate_commit_id (commits and rollback points)
MaxIds == 5

\* client threads of SpecConc
NThreads == 2

\* change events the monitor queues in SpecVal
MaxValEvents == 1

\* commit_changes calls made in SpecDiff
MaxDiffCommits == 2

\* change events the monitor queues in SpecOrch
MaxEvents == 2

\* health samples the health worker takes in SpecOrch
MaxPolls == 1

\* the largest configured max_rollback_attempts
MaxAttempts == 2

\* the largest configured max_rollback_attempts of SpecD
MaxCeiling == 6

-----------------------------------------------------------------------------
(* Values *)

\* Python's None where an id is expected (parent_id, head_commit, from_commit)
NULL == 0

\* an id that names no stored commit and that _generate_commit_id never returns
DanglingIds == {-1}

BranchNames == {"main", "exp"}

\* get_commit_history(1000) of export_audit_trail: more than the ledger holds
HistoryAll == 1000

\* limit arguments of get_commit_history; 50 is the default
HistoryLimits == {1, 50}

EmptySnapshot == [s \in {} |-> <<>>]

\* pattern_changes arguments of commit_changes: Dict[str, List[str]]
SnapshotInputs ==
    { ("s" :> <<"p1">>),
      ("s" :> <<"p1", "p2">>) }

\* Optional[Dict] is a sequence of length at most one: <<>> is None
None == <<>>

Some(x) == <<x>>

Range(seq) == { seq[i] : i \in DOMAIN seq }

RECURSIVE SumOver(_, _)
SumOver(S, f) ==
    IF S = {} THEN 0
    ELSE LET x == CHOOSE y \in S : TRUE
         IN  f[x] + SumOver(S \ {x}, f)

-----------------------------------------------------------------------------
(* The ledger: pattern_version_control.py *)

\* The repository as one value, so that calls compose.
VCS ==
    [ commits |-> commits, branches |-> branches, rollbacks |-> rollbacks,
      snapshots |-> snapshots, current_branch |-> current_branch,
      head_commit |-> head_commit, nextId |-> nextId ]

SetVCS(v) ==
    /\ commits' = v.commits
    /\ branches' = v.branches
    /\ rollbacks' = v.rollbacks
    /\ snapshots' = v.snapshots
    /\ current_branch' = v.current_branch
    /\ head_commit' = v.head_commit
    /\ nextId' = v.nextId

\* an id taken from a clock too coarse to tell two calls apart, without uuid4
_generate_commit_id_coarse(n) == (n \div 2) + 1

\* sha256 of time and a uuid4: an id never handed out before. n ids are out.
_generate_commit_id(n) == n + 1

\* time.time(): the logical clock is the number of ids handed out
Now(v) == v.nextId

\* open(commit_file, 'w'): creates the file, or replaces the one of that name
_save_commit(cs, commit) ==
    [ c \in DOMAIN cs \cup {commit.commit_id} |->
        IF c = commit.commit_id THEN commit ELSE cs[c] ]

\* Optional[PatternCommit] as a sequence of length at most one
_load_commit(cs, commit_id) ==
    IF commit_id \in DOMAIN cs THEN Some(cs[commit_id]) ELSE None

\* a head update that moves the head of every branch
_update_branch_head_all(bs, branch, commit_id) ==
    [ b \in DOMAIN bs \cup {branch} |-> commit_id ]

\* a branch head that is written once and then kept
_update_branch_head_keep(bs, branch, commit_id) ==
    [ b \in DOMAIN bs \cup {branch} |->
        IF b = branch /\ (b \notin DOMAIN bs \/ bs[b] = NULL) THEN commit_id ELSE bs[b] ]

\* branch_data["head_commit"] = commit_id, the file created when missing
_update_branch_head(bs, branch, commit_id) ==
    [ b \in DOMAIN bs \cup {branch} |->
        IF b = branch THEN commit_id ELSE bs[b] ]

_create_branch(bs, branch_name, from_commit) ==
    [ b \in DOMAIN bs \cup {branch_name} |->
        IF b = branch_name THEN from_commit ELSE bs[b] ]

_get_head_commit(bs, branch) ==
    IF branch \in DOMAIN bs THEN bs[branch] ELSE NULL

_get_current_patterns(v) ==
    IF v.head_commit = NULL THEN EmptySnapshot
    ELSE LET current_commit == _load_commit(v.commits, v.head_commit)
         IN  IF current_commit # None THEN current_commit[1].pattern_snapshot
             ELSE EmptySnapshot

PatternsOf(snapshot, source) ==
    IF source \in DOMAIN snapshot THEN Range(snapshot[source]) ELSE {}

\* the "changes" dict; every kind of commit carries the same fields here, the
\* ones its dict lacks are empty
Changes(type, added, removed, modified, details, target, reason) ==
    [ type |-> type, patterns_added |-> added, patterns_removed |-> removed,
      sources_modified |-> modified, details |-> details,
      target_commit |-> target, reason |-> reason ]

_calculate_changes(old_patterns, new_patterns) ==
    LET all_sources == DOMAIN old_patterns \cup DOMAIN new_patterns
        added(s) == PatternsOf(new_patterns, s) \ PatternsOf(old_patterns, s)
        removed(s) == PatternsOf(old_patterns, s) \ PatternsOf(new_patterns, s)
        modified == { s \in all_sources : added(s) # {} \/ removed(s) # {} }
        details == [ s \in modified |->
                       [ added |-> added(s), removed |-> removed(s),
                         added_count |-> Cardinality(added(s)),
                         removed_count |-> Cardinality(removed(s)) ] ]
    IN  Changes("update",
                SumOver(modified, [s \in modified |-> Cardinality(added(s))]),
                SumOver(modified, [s \in modified |-> Cardinality(removed(s))]),
                modified, details, NULL, "")

PatternCount(patterns) ==
    SumOver(DOMAIN patterns, [s \in DOMAIN patterns |-> Len(patterns[s])])

_create_snapshot(ss, commit_id, patterns) ==
    [ c \in DOMAIN ss \cup {commit_id} |->
        IF c = commit_id
        THEN [ commit_id |-> commit_id, patterns |-> patterns,
               pattern_count |-> PatternCount(patterns) ]
        ELSE ss[c] ]

\* a formatted message: its fixed text and what is formatted into it
Message(text, commit, detail, count) ==
    [ text |-> text, commit |-> commit, detail |-> detail, count |-> count ]

PatternCommit(commit_id, parent_id, timestamp, author, message, changes,
              pattern_snapshot, validation_results, branch) ==
    [ commit_id |-> commit_id, parent_id |-> parent_id, timestamp |-> timestamp,
      author |-> author, message |-> message, changes |-> changes,
      pattern_snapshot |-> pattern_snapshot,
      validation_results |-> validation_results,
      rollback_safe |-> TRUE, branch |-> branch ]

\* the commit _create_initial_commit builds
InitialCommit(commit_id, timestamp) ==
    PatternCommit(commit_id, NULL, timestamp, "system",
                  Message("Initial commit - Pattern VCS repository", NULL, "", 0),
                  Changes("initial", 0, 0, {}, <<>>, NULL, ""),
                  EmptySnapshot, None, "main")

\* The repository after __init__ on an empty directory: main exists and
\* points at the initial commit.
_init_repository ==
    LET id == _generate_commit_id(0)
        ic == InitialCommit(id, 0)
        bs == _create_branch(<<>>, "main", NULL)
    IN  [ commits |-> _save_commit(<<>>, ic),
          branches |-> _update_branch_head(bs, "main", id),
          rollbacks |-> <<>>,
          snapshots |-> <<>>,
          current_branch |-> "main",
          head_commit |-> _get_head_commit(_update_branch_head(bs, "main", id), "main"),
          nextId |-> 1 ]

SetInit ==
    /\ commits = _init_repository.commits
    /\ branches = _init_repository.branches
    /\ rollbacks = _init_repository.rollbacks
    /\ snapshots = _init_repository.snapshots
    /\ current_branch = _init_repository.current_branch
    /\ head_commit = _init_repository.head_commit
    /\ nextId = _init_repository.nextId

\* commit_changes: the repository after the call; the id it returns is the
\* new head_commit
commit_changes(v, pattern_changes, message, author, validation_results) ==
    LET current_patterns == _get_current_patterns(v)
        changes == _calculate_changes(current_patterns, pattern_changes)
        id == _generate_commit_id(v.nextId)
        commit == PatternCommit(id, v.head_commit, Now(v), author, message,
                                changes, pattern_changes, validation_results,
                                v.current_branch)
    IN  [ v EXCEPT !.commits = _save_commit(v.commits, commit),
                   !.branches = _update_branch_head(v.branches, v.current_branch, id),
                   !.head_commit = id,
                   !.snapshots = _create_snapshot(v.snapshots, id, pattern_changes),
                   !.nextId = v.nextId + 1 ]

_get_total_pattern_count(v) == PatternCount(_get_current_patterns(v))

_get_system_metrics(v) ==
    [ timestamp |-> Now(v), pattern_count |-> _get_total_pattern_count(v) ]

RollbackPoint(rollback_id, commit_id, timestamp, reason, system_metrics) ==
    [ rollback_id |-> rollback_id, commit_id |-> commit_id,
      timestamp |-> timestamp, reason |-> reason,
      system_metrics |-> system_metrics, automatic |-> FALSE ]

_save_rollback_point(rs, rollback_point) ==
    [ r \in DOMAIN rs \cup {rollback_point.rollback_id} |->
        IF r = rollback_point.rollback_id THEN rollback_point ELSE rs[r] ]

\* a rollback that rewrites history: the new commit hangs under the target
rollback_to_commit_rewriting(v, commit_id, reason) ==
    LET target_commit == _load_commit(v.commits, commit_id)
        rid == _generate_commit_id(v.nextId)
        rollback_point == RollbackPoint(rid, v.head_commit, Now(v), reason,
                                        _get_system_metrics(v))
        id == _generate_commit_id(v.nextId + 1)
        rollback_commit ==
            PatternCommit(id, commit_id, Now(v) + 1, "rollback-system",
                          Message("Rollback to", commit_id, reason, 0),
                          Changes("rollback", 0, 0, {}, <<>>, commit_id, reason),
                          target_commit[1].pattern_snapshot, None,
                          v.current_branch)
    IN  IF target_commit = None
        THEN [ result |-> FALSE, vcs |-> v ]
        ELSE [ result |-> TRUE,
               vcs |-> [ v EXCEPT
                   !.rollbacks = _save_rollback_point(v.rollbacks, rollback_point),
                   !.commits = _save_commit(v.commits, rollback_commit),
                   !.branches = _update_branch_head(v.branches, v.current_branch, id),
                   !.head_commit = id,
                   !.nextId = v.nextId + 2 ] ]

\* a rollback that saves its rollback point before it looks for the target
rollback_to_commit_eager(v, commit_id, reason) ==
    LET target_commit == _load_commit(v.commits, commit_id)
        rid == _generate_commit_id(v.nextId)
        rollback_point == RollbackPoint(rid, v.head_commit, Now(v), reason,
                                        _get_system_metrics(v))
        id == _generate_commit_id(v.nextId + 1)
        rollback_commit ==
            PatternCommit(id, v.head_commit, Now(v) + 1, "rollback-system",
                          Message("Rollback to", commit_id, reason, 0),
                          Changes("rollback", 0, 0, {}, <<>>, commit_id, reason),
                          target_commit[1].pattern_snapshot, None,
                          v.current_branch)
        saved == [ v EXCEPT
                   !.rollbacks = _save_rollback_point(v.rollbacks, rollback_point),
                   !.nextId = v.nextId + 1 ]
    IN  IF target_commit = None
        THEN [ result |-> FALSE, vcs |-> saved ]
        ELSE [ result |-> TRUE,
               vcs |-> [ saved EXCEPT
                   !.commits = _save_commit(v.commits, rollback_commit),
                   !.branches = _update_branch_head(v.branches, v.current_branch, id),
                   !.head_commit = id,
                   !.nextId = v.nextId + 2 ] ]

\* rollback_to_commit: the result (True / False) and the repository after
rollback_to_commit(v, commit_id, reason) ==
    LET target_commit == _load_commit(v.commits, commit_id)
        rid == _generate_commit_id(v.nextId)
        rollback_point == RollbackPoint(rid, v.head_commit, Now(v), reason,
                                        _get_system_metrics(v))
        id == _generate_commit_id(v.nextId + 1)
        rollback_commit ==
            PatternCommit(id, v.head_commit, Now(v) + 1, "rollback-system",
                          Message("Rollback to", commit_id, reason, 0),
                          Changes("rollback", 0, 0, {}, <<>>, commit_id, reason),
                          target_commit[1].pattern_snapshot, None,
                          v.current_branch)
    IN  IF target_commit = None
        THEN [ result |-> FALSE, vcs |-> v ]
        ELSE [ result |-> TRUE,
               vcs |-> [ v EXCEPT
                   !.rollbacks = _save_rollback_point(v.rollbacks, rollback_point),
                   !.commits = _save_commit(v.commits, rollback_commit),
                   !.branches = _update_branch_head(v.branches, v.current_branch, id),
                   !.head_commit = id,
                   !.nextId = v.nextId + 2 ] ]

RECURSIVE get_commit_history_from(_, _, _)
get_commit_history_from(v, current_commit_id, limit) ==
    IF current_commit_id = NULL \/ limit <= 0 THEN <<>>
    ELSE LET commit == _load_commit(v.commits, current_commit_id)
         IN  IF commit = None THEN <<>>
             ELSE <<commit[1]>> \o
                  get_commit_history_from(v, commit[1].parent_id, limit - 1)

\* the commits from HEAD along parent_id, at most limit of them
get_commit_history(v, limit) == get_commit_history_from(v, v.head_commit, limit)

\* a list whose order is the iteration order of a Python set: a bag
RECURSIVE ExtendAll(_, _)
ExtendAll(S, f) ==
    IF S = {} THEN EmptyBag
    ELSE LET x == CHOOSE y \in S : TRUE
         IN  SetToBag(f[x]) (+) ExtendAll(S \ {x}, f)

\* a diff that lists every pattern of to_commit as added
generate_diff_all_added(v, from_commit, to_commit) ==
    LET from_commit_obj == _load_commit(v.commits, from_commit)
        to_commit_obj == _load_commit(v.commits, to_commit)
        from_patterns == from_commit_obj[1].pattern_snapshot
        to_patterns == to_commit_obj[1].pattern_snapshot
        all_sources == DOMAIN from_patterns \cup DOMAIN to_patterns
        added(s) == PatternsOf(to_patterns, s)
        removed(s) == PatternsOf(from_patterns, s) \ PatternsOf(to_patterns, s)
        changed == { s \in all_sources : added(s) # {} \/ removed(s) # {} }
    IN  IF from_commit_obj = None \/ to_commit_obj = None
        THEN [ raised |-> "ValueError" ]
        ELSE [ raised |-> "",
               from_commit |-> from_commit, to_commit |-> to_commit,
               added_patterns |-> ExtendAll(changed, [s \in changed |-> added(s)]),
               removed_patterns |-> ExtendAll(changed, [s \in changed |-> removed(s)]),
               modified_patterns |-> <<>>,
               source_changes |->
                   [ s \in changed |-> [ added |-> added(s), removed |-> removed(s) ] ] ]

\* a diff against the parent of to_commit, whatever from_commit is
generate_diff_parent(v, from_commit, to_commit) ==
    LET from_commit_obj == _load_commit(v.commits, from_commit)
        to_commit_obj == _load_commit(v.commits, to_commit)
        parent_obj == _load_commit(v.commits, to_commit_obj[1].parent_id)
        from_patterns == IF parent_obj = None THEN EmptySnapshot
                         ELSE parent_obj[1].pattern_snapshot
        to_patterns == to_commit_obj[1].pattern_snapshot
        all_sources == DOMAIN from_patterns \cup DOMAIN to_patterns
        added(s) == PatternsOf(to_patterns, s) \ PatternsOf(from_patterns, s)
        removed(s) == PatternsOf(from_patterns, s) \ PatternsOf(to_patterns, s)
        changed == { s \in all_sources : added(s) # {} \/ removed(s) # {} }
    IN  IF from_commit_obj = None \/ to_commit_obj = None
        THEN [ raised |-> "ValueError" ]
        ELSE [ raised |-> "",
               from_commit |-> from_commit, to_commit |-> to_commit,
               added_patterns |-> ExtendAll(changed, [s \in changed |-> added(s)]),
               removed_patterns |-> ExtendAll(changed, [s \in changed |-> removed(s)]),
               modified_patterns |-> <<>>,
               source_changes |->
                   [ s \in changed |-> [ added |-> added(s), removed |-> removed(s) ] ] ]

\* generate_diff: the PatternDiff, or "ValueError" when an id is not stored
generate_diff(v, from_commit, to_commit) ==
    LET from_commit_obj == _load_commit(v.commits, from_commit)
        to_commit_obj == _load_commit(v.commits, to_commit)
        from_patterns == from_commit_obj[1].pattern_snapshot
        to_patterns == to_commit_obj[1].pattern_snapshot
        all_sources == DOMAIN from_patterns \cup DOMAIN to_patterns
        added(s) == PatternsOf(to_patterns, s) \ PatternsOf(from_patterns, s)
        removed(s) == PatternsOf(from_patterns, s) \ PatternsOf(to_patterns, s)
        changed == { s \in all_sources : added(s) # {} \/ removed(s) # {} }
    IN  IF from_commit_obj = None \/ to_commit_obj = None
        THEN [ raised |-> "ValueError" ]
        ELSE [ raised |-> "",
               from_commit |-> from_commit, to_commit |-> to_commit,
               added_patterns |-> ExtendAll(changed, [s \in changed |-> added(s)]),
               removed_patterns |-> ExtendAll(changed, [s \in changed |-> removed(s)]),
               modified_patterns |-> <<>>,
               source_changes |->
                   [ s \in changed |-> [ added |-> added(s), removed |-> removed(s) ] ] ]

create_branch(v, branch_name, from_commit_arg) ==
    LET from_commit == IF from_commit_arg = NULL THEN v.head_commit
                       ELSE from_commit_arg
    IN  IF branch_name \in DOMAIN v.branches
        THEN [ result |-> FALSE, vcs |-> v ]
        ELSE [ result |-> TRUE,
               vcs |-> [ v EXCEPT !.branches =
                           _create_branch(v.branches, branch_name, from_commit) ] ]

switch_branch(v, branch_name) ==
    IF branch_name \notin DOMAIN v.branches
    THEN [ result |-> FALSE, vcs |-> v ]
    ELSE [ result |-> TRUE,
           vcs |-> [ v EXCEPT !.current_branch = branch_name,
                              !.head_commit = _get_head_commit(v.branches, branch_name) ] ]

\* export_audit_trail: the commits of the history inside [start, end] and the
\* summary computed from them
export_audit_trail(v, start_date, end_date) ==
    LET commits_ == get_commit_history(v, HistoryAll)
        kept == SelectSeq(commits_,
                    LAMBDA c : start_date <= c.timestamp /\ c.timestamp <= end_date)
        idx == DOMAIN kept
    IN  [ total_commits |-> Len(kept),
          commits |-> kept,
          summary |->
            [ patterns_added |->
                SumOver(idx, [i \in idx |-> kept[i].changes.patterns_added]),
              patterns_removed |->
                SumOver(idx, [i \in idx |-> kept[i].changes.patterns_removed]),
              rollbacks |->
                Cardinality({ i \in idx : kept[i].changes.type = "rollback" }),
              sources_modified |->
                Cardinality(UNION { kept[i].changes.sources_modified : i \in idx }) ] ]

-----------------------------------------------------------------------------
(* Spec: one client, one API call per step *)

NoThreads ==
    /\ tpc = [ t \in {} |-> "idle" ]
    /\ tloc = [ t \in {} |-> <<>> ]
    /\ ncalls = 0

\* no orchestrator is constructed
NoOrchestrator ==
    /\ config = <<>>
    /\ running = FALSE
    /\ rollback_count = 0
    /\ last_update = 0
    /\ health_history = <<>>
    /\ pattern_engine = <<>>
    /\ change_queue = <<>>
    /\ validation_queue = <<>>
    /\ update_queue = <<>>
    /\ failure_log = <<>>
    /\ wpc = <<>>
    /\ wloc = <<>>
    /\ nevents = 0
    /\ npolls = 0

\* no monitor is polling
NoMonitor ==
    /\ cache = <<>>
    /\ sources = <<>>
    /\ mpc = <<>>
    /\ mloc = <<>>
    /\ nchecks = 0

Init ==
    /\ SetInit
    /\ ret = [ op |-> "init" ]
    /\ NoThreads
    /\ NoOrchestrator
    /\ NoMonitor

\* commit_changes(pattern_changes, message, author)
CommitChanges ==
    \E pattern_changes \in SnapshotInputs :
        /\ nextId < MaxIds
        /\ SetVCS(commit_changes(VCS, pattern_changes,
                                 Message("commit", NULL, "", 0), "auto-update", None))
        /\ ret' = [ op |-> "commit_changes", value |-> head_commit' ]
        /\ UNCHANGED notApi

\* rollback_to_commit(commit_id), the id stored or not
RollbackToCommit ==
    \E commit_id \in DOMAIN commits \cup DanglingIds :
        LET r == rollback_to_commit(VCS, commit_id, "manual rollback")
        IN  /\ r.vcs.nextId <= MaxIds
            /\ SetVCS(r.vcs)
            /\ ret' = [ op |-> "rollback_to_commit", target |-> commit_id,
                        value |-> r.result ]
            /\ UNCHANGED notApi

\* create_branch(branch_name, from_commit), from_commit None, stored or not
CreateBranch ==
    \E branch_name \in BranchNames,
       from_commit \in {NULL} \cup DOMAIN commits \cup DanglingIds :
        LET r == create_branch(VCS, branch_name, from_commit)
        IN  /\ SetVCS(r.vcs)
            /\ ret' = [ op |-> "create_branch", value |-> r.result ]
            /\ UNCHANGED notApi

SwitchBranch ==
    \E branch_name \in BranchNames :
        LET r == switch_branch(VCS, branch_name)
        IN  /\ SetVCS(r.vcs)
            /\ ret' = [ op |-> "switch_branch", value |-> r.result ]
            /\ UNCHANGED notApi

\* commit id arguments of generate_diff: the root, the head, an id not stored
DiffArgs == {_init_repository.head_commit, head_commit} \cup DanglingIds

GenerateDiff ==
    \E from_commit \in DiffArgs, to_commit \in DiffArgs :
        /\ ret' = [ op |-> "generate_diff",
                    value |-> generate_diff(VCS, from_commit, to_commit) ]
        /\ UNCHANGED <<vcsVars, notApi>>

GetCommitHistory ==
    \E limit \in HistoryLimits :
        /\ ret' = [ op |-> "get_commit_history", limit |-> limit,
                    value |-> get_commit_history(VCS, limit) ]
        /\ UNCHANGED <<vcsVars, notApi>>

ExportAuditTrail ==
    \E start_date \in {0, 2} :
        /\ ret' = [ op |-> "export_audit_trail",
                    value |-> export_audit_trail(VCS, start_date, Now(VCS)) ]
        /\ UNCHANGED <<vcsVars, notApi>>

Next ==
    \/ CommitChanges
    \/ RollbackToCommit
    \/ CreateBranch
    \/ SwitchBranch
    \/ GenerateDiff
    \/ GetCommitHistory
    \/ ExportAuditTrail

Spec == Init /\ [][Next]_vars

-----------------------------------------------------------------------------
(* Properties of the ledger API (Spec) *)

\* commit_id is stored and is the grandparent of the head: the chain
\* commit_id -> C1 -> C2 = head
IsChainToHead(commit_id) ==
    /\ head_commit \in DOMAIN commits
    /\ commits[head_commit].parent_id \in DOMAIN commits
    /\ commits[commits[head_commit].parent_id].parent_id = commit_id
    /\ commit_id \in DOMAIN commits

\* C1 - rollback law: a rollback_to_commit(C0) made when the head C2 has
\* parent C1 and C1 has parent C0 returns true; afterwards get_commit_history(1)
\* is one commit with a new id, C0's pattern_snapshot and parent C2, and C0, C1
\* and C2 load with every field as before.
C1_RollbackLaw ==
    [][ \A C0 \in DOMAIN commits :
          ( /\ ret'.op = "rollback_to_commit"
            /\ ret'.target = C0
            /\ IsChainToHead(C0) )
          =>
          LET C2 == head_commit
              C1 == commits[C2].parent_id
              h == get_commit_history(VCS', 1)
          IN  /\ ret'.value = TRUE
              /\ Len(h) = 1
              /\ h[1].commit_id \notin DOMAIN commits
              /\ h[1].pattern_snapshot = commits[C0].pattern_snapshot
              /\ h[1].parent_id = C2
              /\ \A c \in {C0, C1, C2} :
                    _load_commit(commits', c) = Some(commits[c])
      ]_vars

\* a rollback to the grandparent of the former head has just returned, and the
\* snapshot it restored differs from the one of the former head
C1_Witness ==
    /\ ret.op = "rollback_to_commit"
    /\ ret.value = TRUE
    /\ head_commit \in DOMAIN commits
    /\ commits[head_commit].changes.type = "rollback"
    /\ LET C2 == commits[head_commit].parent_id
       IN  /\ C2 \in DOMAIN commits
           /\ commits[C2].parent_id \in DOMAIN commits
           /\ commits[commits[C2].parent_id].parent_id = ret.target
           /\ commits[C2].pattern_snapshot # commits[head_commit].pattern_snapshot
           /\ commits[commits[C2].parent_id].pattern_snapshot
                # commits[head_commit].pattern_snapshot

\* C9 - every commit with a parent_id has a stored commit as its parent, and
\* only the initial commit has none.
C9_ParentExists ==
    \A c \in DOMAIN commits :
        /\ commits[c].parent_id # NULL => commits[c].parent_id \in DOMAIN commits
        /\ commits[c].parent_id = NULL => c = _init_repository.head_commit

\* C10 - the commit store is append-only: every step keeps every stored
\* commit, with every field as it was.
C10_AppendOnly ==
    [][ \A c \in DOMAIN commits :
          c \in DOMAIN commits' /\ commits'[c] = commits[c] ]_vars

\* the store holds an update commit and a rollback commit, a second branch
\* exists and a reporting call has just returned
C10_Witness ==
    /\ \E c \in DOMAIN commits : commits[c].changes.type = "update"
    /\ \E c \in DOMAIN commits : commits[c].changes.type = "rollback"
    /\ "exp" \in DOMAIN branches
    /\ ret.op \in {"generate_diff", "get_commit_history", "export_audit_trail"}

\* C11 - rollback_to_commit returns false exactly when the target id is not
\* stored, and then it writes no rollback point and no commit and leaves the
\* branch heads and head_commit as they were.
C11_MissingTarget ==
    [][ ret'.op = "rollback_to_commit"
        => /\ ret'.value = FALSE <=> ret'.target \notin DOMAIN commits
           /\ ret'.value = FALSE
                => /\ rollbacks' = rollbacks
                   /\ commits' = commits
                   /\ branches' = branches
                   /\ head_commit' = head_commit ]_vars

\* a rollback to an id that is not stored has just returned false, on a
\* ledger that already holds a rollback commit and its rollback point
C11_Witness ==
    /\ ret.op = "rollback_to_commit"
    /\ ret.value = FALSE
    /\ ret.target \notin DOMAIN commits
    /\ rollbacks # <<>>
    /\ \E c \in DOMAIN commits : commits[c].changes.type = "rollback"

-----------------------------------------------------------------------------
(* SpecDiff: commits of arbitrary snapshots, then generate_diff between any *)
(* two ids                                                                  *)

DiffSources == {"s", "t"}

DiffPatterns == {"p1", "p2"}

\* the lists a source can hold in a pattern_changes argument
DiffLists == { <<>>, <<"p1">>, <<"p2">>, <<"p1", "p2">> }

\* pattern_changes arguments: every dict over DiffSources, a source absent or
\* holding one of DiffLists
DiffSnapshotInputs ==
    UNION { [ S -> DiffLists ] : S \in SUBSET DiffSources }

D_CommitChanges ==
    \E pattern_changes \in DiffSnapshotInputs :
        /\ Cardinality(DOMAIN commits) <= MaxDiffCommits
        /\ SetVCS(commit_changes(VCS, pattern_changes,
                                 Message("commit", NULL, "", 0), "auto-update", None))
        /\ ret' = [ op |-> "commit_changes", value |-> head_commit' ]
        /\ UNCHANGED notApi

\* generate_diff(from_commit, to_commit): from any id, to the head or to an
\* id that is not stored
D_GenerateDiff ==
    \E from_commit \in DOMAIN commits \cup DanglingIds,
       to_commit \in {head_commit} \cup DanglingIds :
        /\ ret' = [ op |-> "generate_diff",
                    value |-> generate_diff(VCS, from_commit, to_commit) ]
        /\ UNCHANGED <<vcsVars, notApi>>

NextDiff ==
    \/ D_CommitChanges
    \/ D_GenerateDiff

SpecDiff == Init /\ [][NextDiff]_vars

\* a patch: per source, the patterns it adds and the patterns it removes
Patches ==
    [ DiffSources -> [ added : SUBSET DiffPatterns, removed : SUBSET DiffPatterns ] ]

\* P is a patch on snapshot A: it adds nothing A holds and removes only what
\* A holds
IsPatchOn(P, A) ==
    \A s \in DiffSources :
        /\ P[s].added \cap PatternsOf(A, s) = {}
        /\ P[s].removed \subseteq PatternsOf(A, s)

\* snapshot B is snapshot A with patch P applied
IsPatched(A, P, B) ==
    \A s \in DiffSources :
        PatternsOf(B, s) = (PatternsOf(A, s) \ P[s].removed) \cup P[s].added

\* the patterns a PatternDiff lists for source s
DiffOf(diff, s) ==
    IF s \in DOMAIN diff.source_changes THEN diff.source_changes[s]
    ELSE [ added |-> {}, removed |-> {} ]

\* generate_diff(A, B) has just returned a PatternDiff and B was committed
\* on head A
DiffOfChild ==
    /\ ret.op = "generate_diff"
    /\ ret.value.raised = ""
    /\ commits[ret.value.to_commit].parent_id = ret.value.from_commit

\* C12 - round trip: when B was committed on head A with A's snapshot patched
\* by P, generate_diff(A, B) lists P's added and removed patterns, source by
\* source and in its two totals.
C12_DiffRoundTrip ==
    DiffOfChild =>
        LET A == commits[ret.value.from_commit].pattern_snapshot
            B == commits[ret.value.to_commit].pattern_snapshot
        IN  \A P \in Patches :
                (IsPatchOn(P, A) /\ IsPatched(A, P, B))
                => /\ \A s \in DiffSources :
                        /\ DiffOf(ret.value, s).added = P[s].added
                        /\ DiffOf(ret.value, s).removed = P[s].removed
                   /\ ret.value.added_patterns
                        = ExtendAll(DiffSources, [ s \in DiffSources |-> P[s].added ])
                   /\ ret.value.removed_patterns
                        = ExtendAll(DiffSources, [ s \in DiffSources |-> P[s].removed ])

\* a diff of a child against its parent where the patch adds a pattern to
\* one source and removes one from the other
C12_Witness ==
    /\ DiffOfChild
    /\ DiffOf(ret.value, "s").added # {}
    /\ DiffOf(ret.value, "t").removed # {}
    /\ DiffOf(ret.value, "s").removed = {}

\* generate_diff(commit1, commit3) has just returned, for three commits in a
\* row with snapshots {}, {"s": ["p1"]} and {"s": ["p1", "p2"]}
ScenarioC ==
    /\ ret.op = "generate_diff"
    /\ ret.value.raised = ""
    /\ LET commit1 == ret.value.from_commit
           commit3 == ret.value.to_commit
           commit2 == commits[commit3].parent_id
       IN  /\ commit2 \in DOMAIN commits
           /\ commits[commit2].parent_id = commit1
           /\ commits[commit1].pattern_snapshot = EmptySnapshot
           /\ commits[commit2].pattern_snapshot = ("s" :> <<"p1">>)
           /\ commits[commit3].pattern_snapshot = ("s" :> <<"p1", "p2">>)

\* C13 - scenario C: generate_diff(commit1, commit3) reports added = ["p2"]
\* and removed = [].
C13_ScenarioC ==
    ScenarioC => /\ ret.value.added_patterns = SetToBag({"p2"})
                 /\ ret.value.removed_patterns = EmptyBag

\* C13 as amended: generate_diff(commit1, commit3) reports p1 and p2 as
\* added, each once, and nothing as removed.
C13_ScenarioC_Amended ==
    ScenarioC => /\ ret.value.added_patterns = SetToBag({"p1", "p2"})
                 /\ ret.value.removed_patterns = EmptyBag
                 /\ DOMAIN ret.value.source_changes = {"s"}

C13_Witness ==
    /\ ScenarioC
    /\ BagCardinality(ret.value.added_patterns) = 2

-----------------------------------------------------------------------------
(* SpecConc: NThreads threads, each making one call of commit_changes or    *)
(* rollback_to_commit on one PatternVersionControl object. The object takes *)
(* no lock, so a step is one statement of the method: the read of           *)
(* head_commit, _save_commit, _update_branch_head and the assignment to     *)
(* head_commit are separate steps.                                          *)

Threads == 1 .. NThreads

Idle == [ op |-> "none" ]

InitConc ==
    /\ SetInit
    /\ ret = [ op |-> "init" ]
    /\ tpc = [ t \in Threads |-> "idle" ]
    /\ tloc = [ t \in Threads |-> Idle ]
    /\ ncalls = 0
    /\ NoOrchestrator
    /\ NoMonitor

\* commit_changes, line 215: current_patterns = self._get_current_patterns()
CC_GetCurrentPatterns(t) ==
    \E pattern_changes \in SnapshotInputs :
        /\ tpc[t] = "idle"
        /\ tpc' = [tpc EXCEPT ![t] = "cc_build"]
        /\ tloc' = [tloc EXCEPT ![t] =
                      [ op |-> "commit_changes",
                        pattern_changes |-> pattern_changes,
                        current_patterns |-> _get_current_patterns(VCS) ]]
        /\ UNCHANGED <<vcsVars, ret, ncalls, orchVars, monVars>>

\* lines 218-231: the changes and the PatternCommit, parent_id=self.head_commit
CC_BuildCommit(t) ==
    /\ tpc[t] = "cc_build"
    /\ LET l == tloc[t]
           id == _generate_commit_id(nextId)
           commit == PatternCommit(id, head_commit, Now(VCS), "auto-update",
                         Message("commit", NULL, "", 0),
                         _calculate_changes(l.current_patterns, l.pattern_changes),
                         l.pattern_changes, None, current_branch)
       IN  /\ tloc' = [tloc EXCEPT ![t] = [ op |-> l.op, commit |-> commit ]]
           /\ nextId' = nextId + 1
    /\ tpc' = [tpc EXCEPT ![t] = "cc_save"]
    /\ UNCHANGED <<commits, branches, rollbacks, snapshots, current_branch,
                   head_commit, ret, ncalls, orchVars, monVars>>

\* line 234 (commit_changes) and line 384 (rollback_to_commit): _save_commit
T_SaveCommit(t) ==
    /\ tpc[t] \in {"cc_save", "rb_save"}
    /\ commits' = _save_commit(commits, tloc[t].commit)
    /\ tpc' = [tpc EXCEPT ![t] = IF tpc[t] = "cc_save" THEN "cc_branch" ELSE "rb_branch"]
    /\ UNCHANGED <<branches, rollbacks, snapshots, current_branch, head_commit,
                   nextId, ret, tloc, ncalls, orchVars, monVars>>

\* line 235 and line 385: self._update_branch_head(self.current_branch, id)
T_UpdateBranchHead(t) ==
    /\ tpc[t] \in {"cc_branch", "rb_branch"}
    /\ branches' = _update_branch_head(branches, current_branch,
                                       tloc[t].commit.commit_id)
    /\ tpc' = [tpc EXCEPT ![t] = IF tpc[t] = "cc_branch" THEN "cc_head" ELSE "rb_head"]
    /\ UNCHANGED <<commits, rollbacks, snapshots, current_branch, head_commit,
                   nextId, ret, tloc, ncalls, orchVars, monVars>>

\* line 236: self.head_commit = commit.commit_id
CC_SetHead(t) ==
    /\ tpc[t] = "cc_head"
    /\ head_commit' = tloc[t].commit.commit_id
    /\ tpc' = [tpc EXCEPT ![t] = "cc_snapshot"]
    /\ UNCHANGED <<commits, branches, rollbacks, snapshots, current_branch,
                   nextId, ret, tloc, ncalls, orchVars, monVars>>

\* lines 239-244: _create_snapshot, return commit.commit_id
CC_CreateSnapshot(t) ==
    /\ tpc[t] = "cc_snapshot"
    /\ snapshots' = _create_snapshot(snapshots, tloc[t].commit.commit_id,
                                     tloc[t].commit.pattern_snapshot)
    /\ tpc' = [tpc EXCEPT ![t] = "done"]
    /\ tloc' = [tloc EXCEPT ![t] = Idle]
    /\ ncalls' = ncalls + 1
    /\ UNCHANGED <<commits, branches, rollbacks, current_branch, head_commit,
                   nextId, ret, orchVars, monVars>>

\* rollback_to_commit, lines 351-354: load the target, return False without it
RB_LoadTarget(t) ==
    \E commit_id \in DOMAIN commits \cup DanglingIds :
        /\ tpc[t] = "idle"
        /\ LET target_commit == _load_commit(commits, commit_id)
           IN  IF target_commit = None
               THEN /\ tpc' = [tpc EXCEPT ![t] = "done"]
                    /\ UNCHANGED tloc
               ELSE /\ tpc' = [tpc EXCEPT ![t] = "rb_point"]
                    /\ tloc' = [tloc EXCEPT ![t] =
                                  [ op |-> "rollback_to_commit",
                                    commit_id |-> commit_id,
                                    target_commit |-> target_commit[1] ]]
        /\ ret' = [ op |-> "rollback_to_commit", target |-> commit_id,
                    value |-> commit_id \in DOMAIN commits ]
        /\ UNCHANGED <<vcsVars, ncalls, orchVars, monVars>>

\* lines 357-366: the RollbackPoint of the current head, saved
RB_SaveRollbackPoint(t) ==
    /\ tpc[t] = "rb_point"
    /\ LET rid == _generate_commit_id(nextId)
           rollback_point == RollbackPoint(rid, head_commit, Now(VCS),
                                 "manual rollback", _get_system_metrics(VCS))
       IN  rollbacks' = _save_rollback_point(rollbacks, rollback_point)
    /\ nextId' = nextId + 1
    /\ tpc' = [tpc EXCEPT ![t] = "rb_build"]
    /\ UNCHANGED <<commits, branches, snapshots, current_branch, head_commit,
                   ret, tloc, ncalls, orchVars, monVars>>

\* lines 369-382: the rollback PatternCommit, parent_id=self.head_commit
RB_BuildCommit(t) ==
    /\ tpc[t] = "rb_build"
    /\ LET l == tloc[t]
           id == _generate_commit_id(nextId)
           commit == PatternCommit(id, head_commit, Now(VCS), "rollback-system",
                         Message("Rollback to", l.commit_id, "manual rollback", 0),
                         Changes("rollback", 0, 0, {}, <<>>, l.commit_id,
                                 "manual rollback"),
                         l.target_commit.pattern_snapshot, None, current_branch)
       IN  /\ tloc' = [tloc EXCEPT ![t] = [ op |-> l.op, commit |-> commit ]]
           /\ nextId' = nextId + 1
    /\ tpc' = [tpc EXCEPT ![t] = "rb_save"]
    /\ UNCHANGED <<commits, branches, rollbacks, snapshots, current_branch,
                   head_commit, ret, ncalls, orchVars, monVars>>

\* lines 386-389: self.head_commit = rollback_commit.commit_id, return True
RB_SetHead(t) ==
    /\ tpc[t] = "rb_head"
    /\ head_commit' = tloc[t].commit.commit_id
    /\ tpc' = [tpc EXCEPT ![t] = "done"]
    /\ tloc' = [tloc EXCEPT ![t] = Idle]
    /\ ncalls' = ncalls + 1
    /\ UNCHANGED <<commits, branches, rollbacks, snapshots, current_branch,
                   nextId, ret, orchVars, monVars>>

NextConc ==
    \E t \in Threads :
        \/ CC_GetCurrentPatterns(t)
        \/ CC_BuildCommit(t)
        \/ T_SaveCommit(t)
        \/ T_UpdateBranchHead(t)
        \/ CC_SetHead(t)
        \/ CC_CreateSnapshot(t)
        \/ RB_LoadTarget(t)
        \/ RB_SaveRollbackPoint(t)
        \/ RB_BuildCommit(t)
        \/ RB_SetHead(t)

SpecConc == InitConc /\ [][NextConc]_vars

\* no call is in progress
Quiescent == \A t \in Threads : tpc[t] \in {"idle", "done"}

Root == _init_repository.head_commit

\* the commits the calls created
NewCommits == DOMAIN commits \ {Root}

\* following parent_id from commit_id reaches `to` through stored commits
RECURSIVE ReachesIn(_, _, _)
ReachesIn(commit_id, to, fuel) ==
    /\ commit_id \in DOMAIN commits
    /\ \/ commit_id = to
       \/ /\ fuel > 0
          /\ ReachesIn(commits[commit_id].parent_id, to, fuel - 1)

Reaches(commit_id, to) == ReachesIn(commit_id, to, Cardinality(DOMAIN commits))

\* C2 - after N calls that each create a commit have returned, in whatever
\* interleaving of their steps, the store holds exactly N new commits, the
\* branch head (on disk and in memory) is one of them, and parent_id leads from
\* the head to the root commit through stored commits only.
C2_ConcurrentCommits ==
    (Quiescent /\ ncalls > 0) =>
        /\ Cardinality(NewCommits) = ncalls
        /\ branches[current_branch] \in NewCommits
        /\ head_commit \in NewCommits
        /\ Reaches(branches[current_branch], Root)
        /\ Reaches(head_commit, Root)

\* two calls overlapped (both read the same head) and both have returned
C2_Witness ==
    /\ \A t \in Threads : tpc[t] = "done"
    /\ ncalls = NThreads
    /\ \E c, d \in NewCommits : c # d /\ commits[c].parent_id = commits[d].parent_id

\* C3 - no lost update: once the interleaved calls have returned, every commit
\* they created is reachable from the branch head along parent_id, and no two
\* of them have the same parent.
C3_NoLostUpdate ==
    Quiescent =>
        /\ \A c \in NewCommits : Reaches(branches[current_branch], c)
        /\ \A c, d \in NewCommits :
              c # d => commits[c].parent_id # commits[d].parent_id

-----------------------------------------------------------------------------
(* The orchestrator: auto_update_orchestrator.py                            *)
(*                                                                          *)
(* SpecOrch starts where start() has built the pattern engine and started   *)
(* the worker threads. A step is one stage of a worker's loop iteration;    *)
(* a call into the ledger is one step.                                       *)

\* health_history keeps the last 100 samples
HealthHistoryCap == 100

\* _extract_patterns_from_change returns patterns[:20]
MaxPatternsPerChange == 20

\* validate_patterns_batch keys a result by the first 50 characters
PatternKeyLen == 50

\* _trigger_emergency_rollback looks at get_commit_history(5)
EmergencyHistoryLimit == 5

Workers == {"change", "validation", "update", "health"}

\* a line of fetched content is a sequence of characters
Whitespace == {" ", "\t"}

RECURSIVE lstrip(_)
lstrip(line) ==
    IF line # <<>> /\ Head(line) \in Whitespace THEN lstrip(Tail(line)) ELSE line

RECURSIVE rstrip(_)
rstrip(line) ==
    IF line # <<>> /\ line[Len(line)] \in Whitespace
    THEN rstrip(SubSeq(line, 1, Len(line) - 1))
    ELSE line

strip(line) == rstrip(lstrip(line))

startswith(line, ch) == line # <<>> /\ Head(line) = ch

Prefix(seq, n) == SubSeq(seq, 1, IF Len(seq) < n THEN Len(seq) ELSE n)

\* ChangeEvent as _detect_changes builds it
ChangeEventOf(source_name, commit_sha, changes) ==
    [ source_name |-> source_name, change_type |-> "modified",
      commit_sha |-> commit_sha, changes |-> changes ]

\* the ChangeEvent of a change that only adds the lines added_lines to an
\* empty cache
ChangeEvent(source_name, commit_sha, added_lines) ==
    ChangeEventOf(source_name, commit_sha,
                  [ added_patterns |-> Len(added_lines),
                    removed_patterns |-> 0,
                    added_lines |-> added_lines,
                    removed_lines |-> <<>>,
                    total_lines |-> Len(added_lines) ])

\* the events the monitor queues: one adding a rule, one adding a comment
EventInputs ==
    { ChangeEvent("easylist", "a1b2c3d4e5", << <<"t", ".", "c">> >>),
      ChangeEvent("adguard", "0f9e8d7c6b", << <<"#", "x">>, <<" ">> >>) }

\* a ValidationResult, as far as the orchestrator reads it
ValidationResult(passed, score) == [ passed |-> passed, score |-> score ]

\* score 1.0; a score is a whole number of 1/12000, which holds every score
\* validate_syntax computes for a whole number of milliseconds
ScoreOne == 12000

\* str.count(sub): the occurrences of sub that do not overlap, from the left
RECURSIVE count(_, _)
count(str, sub) ==
    IF Len(sub) > Len(str) THEN 0
    ELSE IF SubSeq(str, 1, Len(sub)) = sub
         THEN 1 + count(SubSeq(str, Len(sub) + 1, Len(str)), sub)
         ELSE count(Tail(str), sub)

\* re.compile(pattern) raising re.error, for the patterns of PatternInputs:
\* a parenthesis without its partner
re_error(pattern) == count(pattern, <<"(">>) # count(pattern, <<")">>)

Least(a, b) == IF a < b THEN a ELSE b

\* _calculate_complexity_score: 1 - (sum of the six factors, each at most 1) / 6
_calculate_complexity_score(pattern) ==
    LET length == Len(pattern)
        alternations == 100 * count(pattern, <<"|">>)
        groups == 50 * count(pattern, <<"(">>)
        quantifiers == 1000 * count(pattern, <<"*">>) + 100 * count(pattern, <<"+">>)
        lookaheads == 1000 * count(pattern, <<"(", "?", "=">>)
                        + 200 * count(pattern, <<"(", "?", "!">>)
        backtracking == 200 * count(pattern, <<".", "*">>)
        total_complexity ==
            Least(length, 1000) + Least(alternations, 1000) + Least(groups, 1000)
              + Least(quantifiers, 1000) + Least(lookaheads, 1000)
              + Least(backtracking, 1000)
    IN  ScoreOne - 2 * total_complexity

\* validate_syntax, compile_time in milliseconds
validate_syntax(pattern, compile_time) ==
    LET format_issues ==
            { issue \in {"too long", "too many groups", "greedy"} :
                \/ issue = "too long" /\ Len(pattern) > 1000
                \/ issue = "too many groups" /\ count(pattern, <<"(">>) > 20
                \/ issue = "greedy"
                     /\ count(pattern, <<".", "*", ".", "*", ".", "*">>) > 0 }
        complexity_score == _calculate_complexity_score(pattern)
        performance_score == ScoreOne - Least(120 * compile_time, 9600)
        overall_score == (performance_score + complexity_score) \div 2
    IN  IF re_error(pattern) THEN ValidationResult(FALSE, 0)
        ELSE ValidationResult(format_issues = {} /\ compile_time < 10, overall_score)

\* validate_performance, from the match times it measured, in microseconds
validate_performance(m) ==
    LET time_score ==
            ScoreOne - Least((m.avg_match_time * ScoreOne) \div 1000, ScoreOne)
        consistency_score ==
            IF m.avg_match_time > 0
            THEN ScoreOne - Least(((m.max_match_time - m.avg_match_time) * ScoreOne)
                                     \div m.avg_match_time, ScoreOne)
            ELSE ScoreOne
    IN  ValidationResult(m.avg_match_time < 1000,
                         (time_score + consistency_score) \div 2)

\* validate_false_positives, from the matches it counted
validate_false_positives(n) ==
    LET fp_score ==
            IF n.false_positives * 1000 >= n.legitimate_urls THEN 0
            ELSE ScoreOne - (n.false_positives * 1000 * ScoreOne) \div n.legitimate_urls
        tp_score == IF n.tracker_urls > 0
                    THEN (n.true_positives * ScoreOne) \div n.tracker_urls ELSE 0
    IN  ValidationResult(n.false_positives * 1000 < n.legitimate_urls,
                         (fp_score * 7 + tp_score * 3) \div 10)

\* validate_community_score, from the two averages it computed
validate_community_score(a) ==
    LET overall_score == (a.avg_community_score + a.avg_threat_score) \div 2
    IN  ValidationResult(overall_score * 10 > 6 * ScoreOne, overall_score)

\* what the validator measures for a pattern: timing and match counts depend
\* on the machine and on the test data files
ValidatorEnvs ==
    [ compile_time : {1, 20},
      match_times : { [ avg_match_time |-> 100, max_match_time |-> 100 ],
                      [ avg_match_time |-> 2000, max_match_time |-> 2000 ] },
      match_counts : { [ false_positives |-> 0, legitimate_urls |-> 200,
                         true_positives |-> 27, tracker_urls |-> 54 ],
                       [ false_positives |-> 200, legitimate_urls |-> 200,
                         true_positives |-> 27, tracker_urls |-> 54 ] },
      averages : { [ avg_community_score |-> 6000, avg_threat_score |-> 10800 ],
                   [ avg_community_score |-> 6000, avg_threat_score |-> 6000 ] } ]

\* the four stages, run whatever the syntax stage found
validate_pattern_comprehensive_all(pattern, env) ==
    ("syntax" :> validate_syntax(pattern, env.compile_time))
      @@ ("performance" :> validate_performance(env.match_times))
      @@ ("false_positive" :> validate_false_positives(env.match_counts))
      @@ ("community" :> validate_community_score(env.averages))

\* validate_pattern_comprehensive: the results dict
validate_pattern_comprehensive(pattern, env) ==
    LET syntax_result == validate_syntax(pattern, env.compile_time)
    IN  IF ~syntax_result.passed THEN ("syntax" :> syntax_result)
        ELSE ("syntax" :> syntax_result)
               @@ ("performance" :> validate_performance(env.match_times))
               @@ ("false_positive" :> validate_false_positives(env.match_counts))
               @@ ("community" :> validate_community_score(env.averages))

\* SystemHealth metrics: the values the code simulates (25 ms, 150 MB, 0.0001)
\* and a slow and a very slow system; false_positive_rate in units of 0.0001
MetricsInputs ==
    { [ detection_speed_ms |-> 25, memory_usage_mb |-> 150, false_positive_rate |-> 1 ],
      [ detection_speed_ms |-> 75, memory_usage_mb |-> 150, false_positive_rate |-> 1 ],
      [ detection_speed_ms |-> 150, memory_usage_mb |-> 150, false_positive_rate |-> 1 ] }

\* the status _collect_health_metrics derives from the metrics
HealthStatus(m) ==
    IF m.detection_speed_ms > 100 \/ m.false_positive_rate > 100 THEN "critical"
    ELSE IF m.detection_speed_ms > 50 \/ m.memory_usage_mb > 500 THEN "degraded"
    ELSE "healthy"

CriticalMetrics == { m \in MetricsInputs : HealthStatus(m) = "critical" }

_collect_health_metrics(v, m) ==
    [ timestamp |-> Now(v), detection_speed_ms |-> m.detection_speed_ms,
      memory_usage_mb |-> m.memory_usage_mb,
      pattern_count |-> _get_total_pattern_count(v),
      false_positive_rate |-> m.false_positive_rate,
      status |-> HealthStatus(m) ]

\* what an apply can die of: nothing, an error before commit_changes, an
\* error in it after _save_commit, an error in it after the head moved
ApplyFaults == {"none", "before_commit", "after_save", "after_head"}

\* the index OptimizedPatternEngine builds from its cache files when created:
\* domain_index maps a base domain to its entry
IndexInputs ==
    { [ domain_index |-> <<>>, url_pattern_index |-> <<>> ],
      [ domain_index |-> ("tracker.com" :> [ threat_level |-> "critical",
                                            source |-> "MailTracker" ]),
        url_pattern_index |-> <<>> ] }

AutoUpdateConfig(validation_enabled, auto_rollback, max_rollback_attempts) ==
    [ validation_enabled |-> validation_enabled, auto_rollback |-> auto_rollback,
      max_rollback_attempts |-> max_rollback_attempts, emergency_stop |-> FALSE ]

InitOrch ==
    /\ SetInit
    /\ ret = [ op |-> "init" ]
    /\ NoThreads
    /\ NoMonitor
    /\ config \in { AutoUpdateConfig(ve, ar, m) :
                      ve \in BOOLEAN, ar \in BOOLEAN, m \in 1 .. MaxAttempts }
    /\ running = TRUE
    /\ rollback_count = 0
    /\ last_update = 0
    /\ health_history = <<>>
    /\ pattern_engine \in IndexInputs
    /\ change_queue = <<>>
    /\ validation_queue = <<>>
    /\ update_queue = <<>>
    /\ failure_log = <<>>
    /\ wpc = [ w \in Workers |-> "idle" ]
    /\ wloc = [ w \in Workers |-> <<>> ]
    /\ nevents = 0
    /\ npolls = 0

\* commit_sha[:8], the sha a string of hexadecimal digits
Prefix8(sha) ==
    CASE sha = "a1b2c3d4e5" -> "a1b2c3d4"
      [] sha = "0f9e8d7c6b" -> "0f9e8d7c"

\* the orchestrator's own _get_current_patterns (lines 461-470)
Orch_get_current_patterns(engine) ==
    IF engine = None THEN EmptySnapshot
    ELSE ("current_state" :> <<"pattern_extraction_placeholder">>)

_simulate_new_patterns(v, change) ==
    change.source_name :>
        << "simulated_pattern_" \o ToString(Now(v)),
           "test_pattern_" \o Prefix8(change.commit_sha) >>

_extract_patterns_from_change(change) ==
    LET lines == change.changes.added_lines
        kept == SelectSeq(lines, LAMBDA line :
                    strip(line) # <<>> /\ ~startswith(line, "!")
                                      /\ ~startswith(line, "#"))
        patterns == [ i \in DOMAIN kept |-> <<strip(kept[i]), change.source_name>> ]
    IN  Prefix(patterns, MaxPatternsPerChange)

\* the key validate_patterns_batch files a pattern's results under
PatternKey(pattern, source) == <<source, Prefix(pattern, PatternKeyLen)>>

\* validate_patterns_batch: the dicts it can return, a key holding the results
\* of one of the patterns filed under it
validate_patterns_batch(patterns) ==
    LET keys == { PatternKey(patterns[i][1], patterns[i][2]) : i \in DOMAIN patterns }
        results ==
            [ key \in keys |->
                { validate_pattern_comprehensive(patterns[i][1], env) :
                    i \in { n \in DOMAIN patterns :
                              PatternKey(patterns[n][1], patterns[n][2]) = key },
                    env \in ValidatorEnvs } ]
    IN  { f \in [ keys -> UNION Range(results) ] :
            \A key \in keys : f[key] \in results[key] }

_validation_passed(validation_results) ==
    LET keys == DOMAIN validation_results
        pairs == { <<k, st>> \in keys \X {"syntax", "performance",
                                          "false_positive", "community"} :
                     st \in DOMAIN validation_results[k] }
        total_score == SumOver(pairs,
                          [ q \in pairs |-> validation_results[q[1]][q[2]].score ])
        total_count == Cardinality(pairs)
        failed_count == Cardinality({ q \in pairs :
                            ~validation_results[q[1]][q[2]].passed })
    IN  IF keys = {} THEN FALSE
        ELSE IF total_count = 0 THEN FALSE
        ELSE /\ total_score * 10 > 7 * ScoreOne * total_count
             /\ failed_count * 5 < total_count

\* GitHubChangeMonitor._monitor_source: self.change_queue.put(change_event)
M_Put ==
    \E change \in EventInputs :
        /\ nevents < MaxEvents
        /\ nevents' = nevents + 1
        /\ change_queue' = Append(change_queue, change)
        /\ UNCHANGED <<vcsVars, ret, thrVars, monVars, config, running, rollback_count,
                       last_update, health_history, pattern_engine,
                       validation_queue, update_queue, failure_log, wpc, wloc,
                       npolls>>

\* stop(): self.running = False
Stop ==
    /\ running
    /\ running' = FALSE
    /\ UNCHANGED <<vcsVars, ret, thrVars, monVars, config, rollback_count, last_update,
                   health_history, pattern_engine, change_queue,
                   validation_queue, update_queue, failure_log, wpc, wloc,
                   nevents, npolls>>

\* a get_pending_changes that reads the queue and leaves the events on it
C_GetPendingChanges_peek ==
    /\ wpc["change"] = "idle"
    /\ running
    /\ change_queue # <<>>
    /\ wloc' = [wloc EXCEPT !["change"] = change_queue]
    /\ wpc' = [wpc EXCEPT !["change"] = "route"]
    /\ UNCHANGED <<vcsVars, ret, thrVars, monVars, config, running, rollback_count,
                   last_update, health_history, pattern_engine, change_queue,
                   validation_queue, update_queue, failure_log, nevents, npolls>>

\* _change_processor, line 259: changes = get_pending_changes()
C_GetPendingChanges ==
    /\ wpc["change"] = "idle"
    /\ running
    /\ change_queue # <<>>
    /\ wloc' = [wloc EXCEPT !["change"] = change_queue]
    /\ change_queue' = <<>>
    /\ wpc' = [wpc EXCEPT !["change"] = "route"]
    /\ UNCHANGED <<vcsVars, ret, thrVars, monVars, config, running, rollback_count,
                   last_update, health_history, pattern_engine,
                   validation_queue, update_queue, failure_log, nevents, npolls>>

\* a for loop that does not look at emergency_stop
C_Route_unstopped ==
    /\ wpc["change"] = "route"
    /\ LET change == Head(wloc["change"])
       IN  IF config.validation_enabled
           THEN /\ validation_queue' = Append(validation_queue, change)
                /\ UNCHANGED update_queue
           ELSE /\ update_queue' = Append(update_queue, <<change, None>>)
                /\ UNCHANGED validation_queue
    /\ wloc' = [wloc EXCEPT !["change"] = Tail(wloc["change"])]
    /\ wpc' = [wpc EXCEPT !["change"] =
                  IF Tail(wloc["change"]) = <<>> THEN "idle" ELSE "route"]
    /\ UNCHANGED <<vcsVars, ret, thrVars, monVars, config, running, rollback_count,
                   last_update, health_history, pattern_engine, change_queue,
                   failure_log, nevents, npolls>>

\* lines 261-273: one turn of the for loop
C_Route ==
    /\ wpc["change"] = "route"
    /\ LET change == Head(wloc["change"])
       IN  IF config.emergency_stop
           THEN UNCHANGED <<validation_queue, update_queue>>
           ELSE IF config.validation_enabled
           THEN /\ validation_queue' = Append(validation_queue, change)
                /\ UNCHANGED update_queue
           ELSE /\ update_queue' = Append(update_queue, <<change, None>>)
                /\ UNCHANGED validation_queue
    /\ wloc' = [wloc EXCEPT !["change"] = Tail(wloc["change"])]
    /\ wpc' = [wpc EXCEPT !["change"] =
                  IF Tail(wloc["change"]) = <<>> THEN "idle" ELSE "route"]
    /\ UNCHANGED <<vcsVars, ret, thrVars, monVars, config, running, rollback_count,
                   last_update, health_history, pattern_engine, change_queue,
                   failure_log, nevents, npolls>>

\* _validation_processor, line 287: change = self.validation_queue.get()
V_Get ==
    /\ wpc["validation"] = "idle"
    /\ running
    /\ validation_queue # <<>>
    /\ wloc' = [wloc EXCEPT !["validation"] = Head(validation_queue)]
    /\ validation_queue' = Tail(validation_queue)
    /\ wpc' = [wpc EXCEPT !["validation"] = "validate"]
    /\ UNCHANGED <<vcsVars, ret, thrVars, monVars, config, running, rollback_count,
                   last_update, health_history, pattern_engine, change_queue,
                   update_queue, failure_log, nevents, npolls>>

\* lines 292-307: extract, validate, queue the change or log the failure
V_Validate ==
    /\ wpc["validation"] = "validate"
    /\ LET change == wloc["validation"]
           patterns_to_validate == _extract_patterns_from_change(change)
       IN  IF patterns_to_validate = <<>>
           THEN UNCHANGED <<update_queue, failure_log>>
           ELSE \E validation_results \in validate_patterns_batch(patterns_to_validate) :
                   IF _validation_passed(validation_results)
                   THEN /\ update_queue' = Append(update_queue,
                                              <<change, Some(validation_results)>>)
                        /\ UNCHANGED failure_log
                   ELSE /\ failure_log' = Append(failure_log,
                               [ source |-> change.source_name, change |-> change ])
                        /\ UNCHANGED update_queue
    /\ wloc' = [wloc EXCEPT !["validation"] = <<>>]
    /\ wpc' = [wpc EXCEPT !["validation"] = "idle"]
    /\ UNCHANGED <<vcsVars, ret, thrVars, monVars, config, running, rollback_count,
                   last_update, health_history, pattern_engine, change_queue,
                   validation_queue, nevents, npolls>>

\* _update_processor, line 320: change, validation_results = update_queue.get()
U_Get ==
    /\ wpc["update"] = "idle"
    /\ running
    /\ update_queue # <<>>
    /\ wloc' = [wloc EXCEPT !["update"] =
                  [ change |-> Head(update_queue)[1],
                    validation_results |-> Head(update_queue)[2] ]]
    /\ update_queue' = Tail(update_queue)
    /\ wpc' = [wpc EXCEPT !["update"] = "rollback_point"]
    /\ UNCHANGED <<vcsVars, ret, thrVars, monVars, config, running, rollback_count,
                   last_update, health_history, pattern_engine, change_queue,
                   validation_queue, failure_log, nevents, npolls>>

\* _create_rollback_point: the commit it makes and the id it returns
_create_rollback_point(v, engine, reason) ==
    commit_changes(v, Orch_get_current_patterns(engine),
                   Message("Rollback point: ", NULL, reason, 0),
                   "auto-update-system", None)

\* line 325: rollback_point = self._create_rollback_point("before_update")
U_CreateRollbackPoint ==
    /\ wpc["update"] = "rollback_point"
    /\ LET v == _create_rollback_point(VCS, pattern_engine, "before_update")
       IN  /\ SetVCS(v)
           /\ wloc' = [wloc EXCEPT !["update"] =
                         [ change |-> wloc["update"].change,
                           validation_results |-> wloc["update"].validation_results,
                           rollback_commit |-> v.head_commit,
                           reason |-> "update_application_failed" ]]
    /\ wpc' = [wpc EXCEPT !["update"] = "apply"]
    /\ UNCHANGED <<ret, thrVars, monVars, config, running, rollback_count, last_update,
                   health_history, pattern_engine, change_queue,
                   validation_queue, update_queue, failure_log, nevents, npolls>>

\* _apply_pattern_update: success and the repository after; the engine is
\* not touched (lines 484-487 only sleep and log)
_apply_pattern_update(v, change, validation_results, fault) ==
    LET new_patterns == _simulate_new_patterns(v, change)
        done == commit_changes(v, new_patterns,
                    Message("Auto-update from", NULL, change.source_name,
                            change.changes.added_patterns),
                    "auto-update-system", validation_results)
    IN  CASE fault = "none" -> [ success |-> TRUE, vcs |-> done ]
          [] fault = "before_commit" -> [ success |-> FALSE, vcs |-> v ]
          [] fault = "after_save" ->
                [ success |-> FALSE,
                  vcs |-> [ v EXCEPT !.commits = done.commits,
                                     !.nextId = done.nextId ] ]
          [] fault = "after_head" ->
                [ success |-> FALSE,
                  vcs |-> [ done EXCEPT !.snapshots = v.snapshots ] ]

\* lines 327-343: apply; on failure go on to the rollback when auto_rollback
U_Apply ==
    \E fault \in ApplyFaults :
        /\ wpc["update"] = "apply"
        /\ LET l == wloc["update"]
               r == _apply_pattern_update(VCS, l.change, l.validation_results, fault)
           IN  /\ SetVCS(r.vcs)
               /\ wpc' = [wpc EXCEPT !["update"] =
                             IF r.success THEN "success"
                             ELSE IF config.auto_rollback THEN "perform_rollback"
                             ELSE "idle"]
        /\ UNCHANGED <<ret, thrVars, monVars, config, running, rollback_count,
                       last_update, health_history, pattern_engine,
                       change_queue, validation_queue, update_queue,
                       failure_log, wloc, nevents, npolls>>

\* lines 331-334: self.last_update = time.time(); self.rollback_count = 0
U_Success ==
    /\ wpc["update"] = "success"
    /\ last_update' = Now(VCS)
    /\ rollback_count' = 0
    /\ wpc' = [wpc EXCEPT !["update"] = "idle"]
    /\ UNCHANGED <<vcsVars, ret, thrVars, monVars, config, running, health_history,
                   pattern_engine, change_queue, validation_queue, update_queue,
                   failure_log, wloc, nevents, npolls>>

\* the ceiling check with > for >=
PR_Check_late(w) ==
    /\ wpc[w] = "perform_rollback"
    /\ IF rollback_count > config.max_rollback_attempts
       THEN /\ config' = [config EXCEPT !.emergency_stop = TRUE]
            /\ wpc' = [wpc EXCEPT ![w] = "idle"]
       ELSE /\ wpc' = [wpc EXCEPT ![w] = "rollback"]
            /\ UNCHANGED config
    /\ UNCHANGED <<vcsVars, ret, thrVars, monVars, running, rollback_count, last_update,
                   health_history, pattern_engine, change_queue,
                   validation_queue, update_queue, failure_log, wloc, nevents,
                   npolls>>

\* _perform_rollback, lines 516-519: the ceiling check
PR_Check(w) ==
    /\ wpc[w] = "perform_rollback"
    /\ IF rollback_count >= config.max_rollback_attempts
       THEN /\ config' = [config EXCEPT !.emergency_stop = TRUE]
            /\ wpc' = [wpc EXCEPT ![w] = "idle"]
       ELSE /\ wpc' = [wpc EXCEPT ![w] = "rollback"]
            /\ UNCHANGED config
    /\ UNCHANGED <<vcsVars, ret, thrVars, monVars, running, rollback_count, last_update,
                   health_history, pattern_engine, change_queue,
                   validation_queue, update_queue, failure_log, wloc, nevents,
                   npolls>>

\* line 523: success = self.version_control.rollback_to_commit(...)
PR_Rollback(w) ==
    /\ wpc[w] = "rollback"
    /\ LET r == rollback_to_commit(VCS, wloc[w].rollback_commit, wloc[w].reason)
       IN  /\ SetVCS(r.vcs)
           /\ wpc' = [wpc EXCEPT ![w] = IF r.result THEN "count" ELSE "idle"]
    /\ UNCHANGED <<ret, thrVars, monVars, config, running, rollback_count, last_update,
                   health_history, pattern_engine, change_queue,
                   validation_queue, update_queue, failure_log, wloc, nevents,
                   npolls>>

\* lines 525-532: self.rollback_count += 1; the engine is only logged about
PR_Count(w) ==
    /\ wpc[w] = "count"
    /\ rollback_count' = rollback_count + 1
    /\ wpc' = [wpc EXCEPT ![w] = "idle"]
    /\ UNCHANGED <<vcsVars, ret, thrVars, monVars, config, running, last_update,
                   health_history, pattern_engine, change_queue,
                   validation_queue, update_queue, failure_log, wloc, nevents,
                   npolls>>

\* a health monitor that never cuts health_history
H_Collect_uncapped(m) ==
    /\ wpc["health"] = "idle"
    /\ running
    /\ LET health == _collect_health_metrics(VCS, m)
       IN  /\ health_history' = Append(health_history, health.status)
           /\ wpc' = [wpc EXCEPT !["health"] =
                         IF health.status = "critical" /\ config.auto_rollback
                         THEN "trigger" ELSE "idle"]
           /\ wloc' = [wloc EXCEPT !["health"] = [ status |-> health.status ]]
    /\ UNCHANGED <<vcsVars, ret, thrVars, monVars, config, running, rollback_count,
                   last_update, pattern_engine, change_queue, validation_queue,
                   update_queue, failure_log, nevents>>

\* _health_monitor, lines 357-369: sample, remember, react to critical;
\* health_history keeps the status of each SystemHealth it holds
H_Collect(m) ==
    /\ wpc["health"] = "idle"
    /\ running
    /\ LET health == _collect_health_metrics(VCS, m)
           appended == Append(health_history, health.status)
       IN  /\ health_history' =
                 IF Len(appended) > HealthHistoryCap
                 THEN SubSeq(appended, Len(appended) - HealthHistoryCap + 1,
                             Len(appended))
                 ELSE appended
           /\ wpc' = [wpc EXCEPT !["health"] =
                         IF health.status = "critical" /\ config.auto_rollback
                         THEN "trigger" ELSE "idle"]
           /\ wloc' = [wloc EXCEPT !["health"] = [ status |-> health.status ]]
    /\ UNCHANGED <<vcsVars, ret, thrVars, monVars, config, running, rollback_count,
                   last_update, pattern_engine, change_queue, validation_queue,
                   update_queue, failure_log, nevents>>

\* the commit _trigger_emergency_rollback picks: the first of the recent
\* commits that is no rollback, None when all of them are
EmergencyTarget(v) ==
    LET recent_commits == get_commit_history(v, EmergencyHistoryLimit)
        stable == SelectSeq(recent_commits,
                            LAMBDA c : c.changes.type # "rollback")
    IN  IF stable = <<>> THEN None ELSE Some(stable[1].commit_id)

\* _trigger_emergency_rollback, lines 567-573
H_Trigger ==
    /\ wpc["health"] = "trigger"
    /\ LET target == EmergencyTarget(VCS)
       IN  IF target = None
           THEN /\ wpc' = [wpc EXCEPT !["health"] = "idle"]
                /\ UNCHANGED wloc
           ELSE /\ wpc' = [wpc EXCEPT !["health"] = "perform_rollback"]
                /\ wloc' = [wloc EXCEPT !["health"] =
                              [ status |-> wloc["health"].status,
                                rollback_commit |-> target[1],
                                reason |-> "emergency: critical" ]]
    /\ UNCHANGED <<vcsVars, ret, thrVars, monVars, config, running, rollback_count,
                   last_update, health_history, pattern_engine, change_queue,
                   validation_queue, update_queue, failure_log, nevents, npolls>>

H_Poll ==
    \E m \in MetricsInputs :
        /\ npolls < MaxPolls
        /\ npolls' = npolls + 1
        /\ H_Collect(m)

NextOrch ==
    \/ M_Put
    \/ Stop
    \/ C_GetPendingChanges
    \/ C_Route
    \/ V_Get
    \/ V_Validate
    \/ U_Get
    \/ U_CreateRollbackPoint
    \/ U_Apply
    \/ U_Success
    \/ \E w \in {"update", "health"} : PR_Check(w)
    \/ \E w \in {"update", "health"} : PR_Rollback(w)
    \/ \E w \in {"update", "health"} : PR_Count(w)
    \/ H_Poll
    \/ H_Trigger

SpecOrch == InitOrch /\ [][NextOrch]_vars

-----------------------------------------------------------------------------
(* Properties of the orchestrator                                           *)

RollbackWorkers == {"update", "health"}

RollbackCommits == { c \in DOMAIN commits : commits[c].changes.type = "rollback" }

\* C4: once config.emergency_stop is true, no step of the orchestrator adds
\* a commit to the ledger, whatever was waiting in its queues.
C4_NoCommitAfterStop ==
    [][config.emergency_stop => commits' = commits]_vars

\* C5: a _perform_rollback that finds rollback_count >= max_rollback_attempts
\* sets emergency_stop and writes neither a commit nor a rollback point nor a
\* head; and no step takes emergency_stop from true to false.
C5_CeilingStops ==
    [][ /\ \A w \in RollbackWorkers :
             ( /\ wpc[w] = "perform_rollback"
               /\ wpc'[w] # "perform_rollback"
               /\ rollback_count >= config.max_rollback_attempts )
             => /\ config'.emergency_stop
                /\ wpc'[w] = "idle"
                /\ commits' = commits
                /\ rollbacks' = rollbacks
                /\ branches' = branches
                /\ head_commit' = head_commit
        /\ config.emergency_stop => config'.emergency_stop ]_vars

\* emergency stop was set at the ceiling and a later successful update has
\* reset rollback_count
C5_Witness ==
    /\ config.emergency_stop
    /\ config.max_rollback_attempts >= 1
    /\ rollback_count = 0
    /\ last_update > 0
    /\ RollbackCommits # {}

\* C7: when the update worker's rollback after a failed apply is done, the
\* head's pattern_snapshot is the one the head had before the worker made
\* its rollback point, the parent of the rollback-point commit.
C7_RollbackRestoresPreUpdate ==
    [][ ( /\ wpc["update"] = "rollback"
          /\ wpc'["update"] = "count" )
        => _get_current_patterns(VCS')
             = commits[commits[wloc["update"].rollback_commit].parent_id].pattern_snapshot ]_vars

\* the domains an index rebuilt from a pattern_snapshot holds
IndexedDomains(snapshot) ==
    UNION { Range(snapshot[source]) : source \in DOMAIN snapshot }

OrchQuiescent ==
    /\ \A w \in Workers : wpc[w] = "idle"
    /\ change_queue = <<>>
    /\ validation_queue = <<>>
    /\ update_queue = <<>>

\* C8: in a quiescent state after an accepted commit or a rollback, the
\* engine's domain_index holds exactly the domains of the head's
\* pattern_snapshot.
C8_IndexMatchesHead ==
    ( /\ OrchQuiescent
      /\ last_update > 0 \/ RollbackCommits # {} )
    => DOMAIN pattern_engine.domain_index
         = IndexedDomains(_get_current_patterns(VCS))

-----------------------------------------------------------------------------
(* Scenario D: the health worker alone, every sample critical               *)

InitD ==
    /\ SetInit
    /\ ret = [ op |-> "init" ]
    /\ NoThreads
    /\ NoMonitor
    /\ config \in { AutoUpdateConfig(TRUE, TRUE, m) : m \in 1 .. MaxCeiling }
    /\ running = TRUE
    /\ rollback_count = 0
    /\ last_update = 0
    /\ health_history = <<>>
    /\ pattern_engine \in IndexInputs
    /\ change_queue = <<>>
    /\ validation_queue = <<>>
    /\ update_queue = <<>>
    /\ failure_log = <<>>
    /\ wpc = [ w \in Workers |-> "idle" ]
    /\ wloc = [ w \in Workers |-> <<>> ]
    /\ nevents = 0
    /\ npolls = 0

H_PollCritical ==
    \E m \in CriticalMetrics :
        /\ H_Collect(m)
        /\ UNCHANGED npolls

NextD ==
    \/ H_PollCritical
    \/ H_Trigger
    \/ PR_Check("health")
    \/ PR_Rollback("health")
    \/ PR_Count("health")

SpecD == InitD /\ [][NextD]_vars /\ WF_vars(NextD)

Min(a, b) == IF a < b THEN a ELSE b

\* C6: after each of a run of critical observations made below the ceiling
\* there is one more rollback commit and rollback_count is one higher, so
\* between observations both equal the number of observations, up to the
\* ceiling.
C6_OnePerObservation ==
    ( /\ wpc["health"] = "idle"
      /\ Len(health_history) < HealthHistoryCap )
    => /\ rollback_count = Min(Len(health_history), config.max_rollback_attempts)
       /\ Cardinality(RollbackCommits) = rollback_count

-----------------------------------------------------------------------------
(* SpecVal: the validator called on a pattern, and the change and           *)
(* validation workers fed with changes that carry candidate patterns        *)

\* pattern arguments of validate_pattern_comprehensive: two plain ones, the
\* ".*.*.*" of the validator's own main(), one that does not compile
PatternInputs ==
    { <<"a", ".", "c", "o">>,
      <<"b", ".", "c", "o">>,
      <<".", "*", ".", "*", ".", "*">>,
      <<"(">> }

\* change events with candidate patterns: two plain patterns and ".*.*.*",
\* and a pattern that does not compile
CandidateEventInputs ==
    EventInputs \cup
    { ChangeEvent("easylist", "a1b2c3d4e5",
                  << <<"a", ".", "c", "o">>, <<"b", ".", "c", "o">>,
                     <<".", "*", ".", "*", ".", "*">> >>),
      ChangeEvent("adguard", "0f9e8d7c6b", << <<"(">> >>) }

InitVal ==
    /\ SetInit
    /\ ret = [ op |-> "init" ]
    /\ NoThreads
    /\ NoMonitor
    /\ config \in { AutoUpdateConfig(TRUE, ar, 3) : ar \in BOOLEAN }
    /\ running = TRUE
    /\ rollback_count = 0
    /\ last_update = 0
    /\ health_history = <<>>
    /\ pattern_engine \in IndexInputs
    /\ change_queue = <<>>
    /\ validation_queue = <<>>
    /\ update_queue = <<>>
    /\ failure_log = <<>>
    /\ wpc = [ w \in Workers |-> "idle" ]
    /\ wloc = [ w \in Workers |-> <<>> ]
    /\ nevents = 0
    /\ npolls = 0

\* PatternValidator.validate_pattern_comprehensive(pattern, source)
ValidatePatternComprehensive ==
    \E pattern \in PatternInputs, env \in ValidatorEnvs :
        /\ ret' = [ op |-> "validate_pattern_comprehensive", pattern |-> pattern,
                    value |-> validate_pattern_comprehensive(pattern, env) ]
        /\ UNCHANGED <<vcsVars, notApi>>

\* GitHubChangeMonitor._monitor_source: self.change_queue.put(change_event)
MV_Put ==
    \E change \in CandidateEventInputs :
        /\ nevents < MaxValEvents
        /\ nevents' = nevents + 1
        /\ change_queue' = Append(change_queue, change)
        /\ UNCHANGED <<vcsVars, ret, thrVars, monVars, config, running, rollback_count,
                       last_update, health_history, pattern_engine,
                       validation_queue, update_queue, failure_log, wpc, wloc,
                       npolls>>

NextVal ==
    \/ ValidatePatternComprehensive
    \/ MV_Put
    \/ C_GetPendingChanges
    \/ C_Route
    \/ V_Get
    \/ V_Validate

SpecVal == InitVal /\ [][NextVal]_vars

ValidatorReturned == ret.op = "validate_pattern_comprehensive"

\* C14 - validator ordering: when the syntax result has passed = false, the
\* results dict holds the syntax entry and no other.
C14_SyntaxFailureStops ==
    (ValidatorReturned /\ ~ret.value["syntax"].passed)
    => DOMAIN ret.value = {"syntax"}

\* a pattern that compiles was rejected by the syntax stage with a score
C14_Witness ==
    /\ ValidatorReturned
    /\ ~ret.value["syntax"].passed
    /\ ret.value["syntax"].score > 0

StageOrder == <<"syntax", "performance", "false_positive", "community">>

\* C15 - the stages run in order and stop at the first failing one: the
\* results dict holds a prefix of the stages and no result after a failed one.
C15_FirstFailureStops ==
    ValidatorReturned
    => \A i \in DOMAIN StageOrder, j \in DOMAIN StageOrder :
          (i < j /\ StageOrder[j] \in DOMAIN ret.value)
          => /\ StageOrder[i] \in DOMAIN ret.value
             /\ ret.value[StageOrder[i]].passed

\* C18 - scenario B: validating ".*.*.*" gives a performance result with
\* passed = false.
C18_ScenarioB ==
    (ValidatorReturned /\ ret.pattern = <<".", "*", ".", "*", ".", "*">>)
    => /\ "performance" \in DOMAIN ret.value
       /\ ~ret.value["performance"].passed

\* the validation worker has just put a change on update_queue
Forwarded ==
    /\ wpc["validation"] = "validate"
    /\ wpc'["validation"] = "idle"
    /\ Len(update_queue') = Len(update_queue) + 1

StageResults(validation_results) ==
    { q \in (DOMAIN validation_results) \X Range(StageOrder) :
        q[2] \in DOMAIN validation_results[q[1]] }

C17_NoSilentDrop ==
    [][ (wpc["validation"] = "validate" /\ wpc'["validation"] = "idle")
        => \/ /\ Len(update_queue') = Len(update_queue) + 1
              /\ failure_log' = failure_log
           \/ /\ Len(failure_log') = Len(failure_log) + 1
              /\ update_queue' = update_queue ]_vars

-----------------------------------------------------------------------------
(* SpecMon: GitHubChangeMonitor polling its sources, realtime_github_sync.py *)
(*                                                                          *)
(* A content is a string, a sequence of characters. A step of                *)
(* _monitor_source is what runs between two awaits, with the write of the    *)
(* cache file and the put on the queue as steps of their own. The monitor    *)
(* thread is a daemon thread: the process can end between any two steps.     *)

\* 'added_lines': list(added_lines)[:10]
SampleLimit == 10

MonSources == {"ublock_privacy"}

\* str.splitlines(), for the line end "\n"
RECURSIVE splitlines(_)
splitlines(str) ==
    IF str = <<>> THEN <<>>
    ELSE LET ends == { i \in DOMAIN str : str[i] = "\n" }
         IN  IF ends = {} THEN <<str>>
             ELSE LET i == CHOOSE e \in ends : \A o \in ends : e <= o
                  IN  <<SubSeq(str, 1, i - 1)>>
                        \o splitlines(SubSeq(str, i + 1, Len(str)))

\* the elements of seq, each once, in the order of their first occurrence
RECURSIVE Distinct(_)
Distinct(seq) ==
    IF seq = <<>> THEN <<>>
    ELSE LET init == Distinct(SubSeq(seq, 1, Len(seq) - 1))
             last == seq[Len(seq)]
         IN  IF last \in Range(init) THEN init ELSE Append(init, last)

Reverse(seq) == [ i \in DOMAIN seq |-> seq[Len(seq) + 1 - i] ]

\* list(a_set): the orders the model takes of the iteration orders a set of
\* lines can have, the one of the content and its reverse
ListsOf(lines, in_content) ==
    LET listed == SelectSeq(Distinct(in_content), LAMBDA l : l \in lines)
    IN  { listed, Reverse(listed) }

\* fetched and cached contents: "a\nb", "a\nb\nc", "b\na", "a\nb\n" and eleven
\* lines c to m
ContentInputs ==
    { <<"a", "\n", "b">>,
      <<"a", "\n", "b", "\n", "c">>,
      <<"b", "\n", "a">>,
      <<"a", "\n", "b", "\n">>,
      <<"c", "\n", "d", "\n", "e", "\n", "f", "\n", "g", "\n", "h", "\n",
        "i", "\n", "j", "\n", "k", "\n", "l", "\n", "m">> }

\* what the GitHub API answers in _check_for_commits: nothing, or the sha of
\* the latest commit
ShaInputs == {"a1b2c3d4e5", "0f9e8d7c6b"}

\* hashlib.sha256(new_content.encode()).hexdigest()[:16]: one name for each
\* content
content_hash(content) ==
    CASE content = <<"a", "\n", "b">> -> "hash_a_b"
      [] content = <<"a", "\n", "b", "\n", "c">> -> "hash_a_b_c"
      [] content = <<"b", "\n", "a">> -> "hash_b_a"
      [] content = <<"a", "\n", "b", "\n">> -> "hash_a_b_nl"
      [] OTHER -> "hash_c_to_m"

\* what the server answers in _fetch_with_etag: 304, an error, or 200 with a
\* content and its headers
ResponseInputs ==
    { [ status |-> 304, text |-> <<>>, etag |-> "" ],
      [ status |-> 500, text |-> <<>>, etag |-> "" ] }
    \cup { [ status |-> 200, text |-> c, etag |-> "e1" ] : c \in ContentInputs }
    \cup { [ status |-> 200, text |-> <<>>, etag |-> "e0" ] }

\* a GitHubSource; last_check is None or the time of the last 200 answer
GitHubSource(etag, last_commit_sha) ==
    [ etag |-> etag, last_modified |-> etag, last_check |-> None,
      last_commit_sha |-> last_commit_sha ]

\* _check_for_commits: the source after the API answered api_data
_check_for_commits(source, api_data) ==
    IF api_data = None \/ source.last_commit_sha = api_data[1]
    THEN source
    ELSE [source EXCEPT !.last_commit_sha = api_data[1]]

\* _fetch_with_etag: the source after the server answered response
_fetch_with_etag(source, response) ==
    IF response.status = 200
    THEN [source EXCEPT !.etag = response.etag,
                        !.last_modified = response.etag,
                        !.last_check = Some("now")]
    ELSE source

\* a _detect_changes without its two early returns
_detect_changes_eager(source_name, source, old_content, new_content) ==
    LET old_seq == IF old_content = None \/ old_content[1] = <<>> THEN <<>>
                   ELSE splitlines(old_content[1])
        new_seq == splitlines(new_content)
        old_lines == Range(old_seq)
        new_lines == Range(new_seq)
        added_lines == new_lines \ old_lines
        removed_lines == old_lines \ new_lines
        commit_sha == IF source.last_commit_sha # "" THEN source.last_commit_sha
                      ELSE content_hash(new_content)
    IN  { Some(ChangeEventOf(source_name, commit_sha,
                   [ added_patterns |-> Cardinality(added_lines),
                     removed_patterns |-> Cardinality(removed_lines),
                     added_lines |-> Prefix(added, SampleLimit),
                     removed_lines |-> Prefix(removed, SampleLimit),
                     total_lines |-> Cardinality(new_lines) ])) :
            added \in ListsOf(added_lines, new_seq),
            removed \in ListsOf(removed_lines, old_seq) }

\* _detect_changes: the events it can return, None among them
_detect_changes(source_name, source, old_content, new_content) ==
    LET old_seq == IF old_content = None \/ old_content[1] = <<>> THEN <<>>
                   ELSE splitlines(old_content[1])
        new_seq == splitlines(new_content)
        old_lines == Range(old_seq)
        new_lines == Range(new_seq)
        added_lines == new_lines \ old_lines
        removed_lines == old_lines \ new_lines
        commit_sha == IF source.last_commit_sha # "" THEN source.last_commit_sha
                      ELSE content_hash(new_content)
    IN  IF old_content = Some(new_content) THEN {None}
        ELSE IF added_lines = {} /\ removed_lines = {} THEN {None}
        ELSE { Some(ChangeEventOf(source_name, commit_sha,
                   [ added_patterns |-> Cardinality(added_lines),
                     removed_patterns |-> Cardinality(removed_lines),
                     added_lines |-> Prefix(added, SampleLimit),
                     removed_lines |-> Prefix(removed, SampleLimit),
                     total_lines |-> Cardinality(new_lines) ])) :
                 added \in ListsOf(added_lines, new_seq),
                 removed \in ListsOf(removed_lines, old_seq) }

\* the monitor as constructed, the cache file of a source missing or holding
\* an earlier content
InitMon ==
    /\ SetInit
    /\ ret = [ op |-> "init" ]
    /\ NoThreads
    /\ NoOrchestrator
    /\ cache \in { <<>> } \cup { [ n \in MonSources |-> <<"a", "\n", "b">> ] }
    /\ sources = [ n \in MonSources |-> GitHubSource("", "") ]
    /\ mpc = [ n \in MonSources |-> "idle" ]
    /\ mloc = [ n \in MonSources |-> <<>> ]
    /\ nchecks = 0

\* polls of one source made in SpecMon
MaxChecks == 2

\* _monitor_source up to its first await, and _check_for_commits: the API
\* answers nothing or the sha of the latest commit
M_CheckForCommits(n) ==
    /\ mpc[n] = "idle"
    /\ nchecks < MaxChecks
    /\ nchecks' = nchecks + 1
    /\ \E api_data \in {None} \cup { Some(sha) : sha \in ShaInputs } :
         sources' = [sources EXCEPT ![n] = _check_for_commits(sources[n], api_data)]
    /\ mpc' = [mpc EXCEPT ![n] = "fetch"]
    /\ UNCHANGED <<vcsVars, ret, thrVars, orchVars, cache, mloc>>

\* the cache file is read and _fetch_with_etag returns one of responses
M_FetchFrom(n, responses) ==
    /\ mpc[n] = "fetch"
    /\ \E response \in responses :
         LET old_content == IF n \in DOMAIN cache THEN Some(cache[n]) ELSE None
             content_changed == response.status = 200
         IN  /\ sources' = [sources EXCEPT ![n] =
                               _fetch_with_etag(sources[n], response)]
             /\ IF content_changed /\ response.text # <<>>
                THEN /\ mpc' = [mpc EXCEPT ![n] = "detect"]
                     /\ mloc' = [mloc EXCEPT ![n] =
                                   [ old_content |-> old_content,
                                     new_content |-> response.text ]]
                ELSE /\ mpc' = [mpc EXCEPT ![n] = "idle"]
                     /\ mloc' = [mloc EXCEPT ![n] = <<>>]
    /\ UNCHANGED <<vcsVars, ret, thrVars, orchVars, cache, nchecks>>

M_Fetch(n) == M_FetchFrom(n, ResponseInputs)

\* change_event = await self._detect_changes(source, old_content, new_content)
M_DetectChanges(n) ==
    /\ mpc[n] = "detect"
    /\ \E change_event \in _detect_changes(n, sources[n], mloc[n].old_content,
                                           mloc[n].new_content) :
         IF change_event # None
         THEN /\ mpc' = [mpc EXCEPT ![n] = "write"]
              /\ mloc' = [mloc EXCEPT ![n] =
                            [ old_content |-> mloc[n].old_content,
                              new_content |-> mloc[n].new_content,
                              change_event |-> change_event[1] ]]
         ELSE /\ mpc' = [mpc EXCEPT ![n] = "idle"]
              /\ mloc' = [mloc EXCEPT ![n] = <<>>]
    /\ UNCHANGED <<vcsVars, ret, thrVars, orchVars, cache, sources, nchecks>>

\* cache_file.write_text(new_content)
M_WriteCache(n) ==
    /\ mpc[n] = "write"
    /\ cache' = [ m \in DOMAIN cache \cup {n} |->
                    IF m = n THEN mloc[n].new_content ELSE cache[m] ]
    /\ mpc' = [mpc EXCEPT ![n] = "put"]
    /\ UNCHANGED <<vcsVars, ret, thrVars, orchVars, sources, mloc, nchecks>>

\* self.change_queue.put(change_event)
M_QueuePut(n) ==
    /\ mpc[n] = "put"
    /\ change_queue' = Append(change_queue, mloc[n].change_event)
    /\ mpc' = [mpc EXCEPT ![n] = "idle"]
    /\ mloc' = [mloc EXCEPT ![n] = <<>>]
    /\ UNCHANGED <<vcsVars, ret, thrVars, config, running, rollback_count,
                   last_update, health_history, pattern_engine,
                   validation_queue, update_queue, failure_log, wpc, wloc,
                   nevents, npolls, cache, sources, nchecks>>

\* the monitor thread is a daemon thread: the process ends while a poll is
\* under way, and what is on disk stays
M_Kill(n) ==
    /\ mpc[n] \notin {"idle", "killed"}
    /\ mpc' = [ m \in MonSources |-> "killed" ]
    /\ mloc' = [ m \in MonSources |-> <<>> ]
    /\ UNCHANGED <<vcsVars, ret, thrVars, orchVars, cache, sources, nchecks>>

\* GitHubChangeMonitor.get_pending_changes()
get_pending_changes ==
    /\ \A n \in MonSources : mpc[n] # "killed"
    /\ change_queue # <<>>
    /\ ret' = [ op |-> "get_pending_changes", value |-> change_queue ]
    /\ change_queue' = <<>>
    /\ UNCHANGED <<vcsVars, thrVars, config, running, rollback_count,
                   last_update, health_history, pattern_engine,
                   validation_queue, update_queue, failure_log, wpc, wloc,
                   nevents, npolls, monVars>>

NextMon ==
    \/ \E n \in MonSources : M_CheckForCommits(n)
    \/ \E n \in MonSources : M_Fetch(n)
    \/ \E n \in MonSources : M_DetectChanges(n)
    \/ \E n \in MonSources : M_WriteCache(n)
    \/ \E n \in MonSources : M_QueuePut(n)
    \/ \E n \in MonSources : M_Kill(n)
    \/ get_pending_changes

SpecMon == InitMon /\ [][NextMon]_vars

\* the lines of a content, and of what a cache file that may be missing holds
LinesOf(content) == Range(splitlines(content))

CachedLines(old_content) ==
    IF old_content = None THEN {} ELSE LinesOf(old_content[1])

\* list holds each line of lines once and nothing else
ListsExactly(list, lines) ==
    Range(list) = lines /\ Len(list) = Cardinality(lines)

\* the lines the poll in mloc[n] added to and removed from the cached content
AddedIn(n) == LinesOf(mloc[n].new_content) \ CachedLines(mloc[n].old_content)

RemovedIn(n) == CachedLines(mloc[n].old_content) \ LinesOf(mloc[n].new_content)

\* C19: when a poll of a source returns a content N whose lines differ from
\* those of the cached content O, exactly one ChangeEvent is enqueued, whose
\* added_lines are exactly the lines of N not in O and whose removed_lines are
\* exactly the lines of O not in N, however many lines changed.
C19_ExactChangeEvent ==
    [][ \A n \in MonSources :
          /\ ( /\ mpc[n] = "detect"
               /\ mpc'[n] \notin {"detect", "killed"}
               /\ AddedIn(n) \cup RemovedIn(n) # {} )
             => /\ mpc'[n] = "write"
                /\ ListsExactly(mloc'[n].change_event.changes.added_lines,
                                AddedIn(n))
                /\ ListsExactly(mloc'[n].change_event.changes.removed_lines,
                                RemovedIn(n))
          /\ ( mpc[n] = "put" /\ mpc'[n] = "idle" )
             => change_queue' = Append(change_queue, mloc[n].change_event) ]_vars

\* e is on the queue or was handed over by the last get_pending_changes
Delivered(e) ==
    \/ e \in Range(change_queue)
    \/ ret.op = "get_pending_changes" /\ e \in Range(ret.value)

\* C20: the fetched content becomes the cache baseline only after its
\* ChangeEvent was enqueued and accepted: no step writes the new content to the
\* cache file of a source while the event of that change is not yet enqueued.
C20_CacheAfterEnqueue ==
    [][ \A n \in MonSources :
          ( n \in DOMAIN cache'
            /\ (n \notin DOMAIN cache \/ cache'[n] # cache[n]) )
          => Delivered(mloc[n].change_event) ]_vars

-----------------------------------------------------------------------------
(* SpecCyc: _monitoring_loop gathering the polls of the sources that are due *)
(*                                                                          *)
(* mpc["loop"] is the position of the loop and mloc["loop"] holds its tasks  *)
(* and the number of cycles made; the tasks of one cycle interleave at their *)
(* awaits. _save_sources_config writes a file that only __init__ reads.      *)

CycSources == {"ublock_privacy", "adguard_spyware"}

\* cycles of _monitoring_loop made in SpecCyc
MaxCycles == 2

\* the answers taken in SpecCyc: 304, an error, 200 with "a\nb" or "a\nb\nc"
CycResponseInputs ==
    { r \in ResponseInputs :
        r.status = 200 => r.text \in { <<"a", "\n", "b">>,
                                       <<"a", "\n", "b", "\n", "c">> } }

InitCyc ==
    /\ SetInit
    /\ ret = [ op |-> "init" ]
    /\ NoThreads
    /\ NoOrchestrator
    /\ cache \in { <<>>, [ n \in CycSources |-> <<"a", "\n", "b">> ] }
    /\ sources = [ n \in CycSources |-> GitHubSource("", "") ]
    /\ mpc = [ n \in CycSources \cup {"loop"} |-> IF n = "loop" THEN "top" ELSE "idle" ]
    /\ mloc = [ n \in CycSources \cup {"loop"} |->
                  IF n = "loop" THEN [ tasks |-> {}, cycle |-> 0 ] ELSE <<>> ]
    /\ nchecks = 0

\* one pass of the for loop of _monitoring_loop: a source never answered with
\* 200 has last_check None and is due, another is due when its poll_interval
\* has passed; with no task the loop sleeps and starts over
L_Schedule ==
    /\ mpc["loop"] = "top"
    /\ mloc["loop"].cycle < MaxCycles
    /\ \E tasks \in SUBSET CycSources :
         /\ \A n \in CycSources : sources[n].last_check = None => n \in tasks
         /\ mpc' = [ n \in DOMAIN mpc |->
                       IF n \in tasks THEN "start"
                       ELSE IF n = "loop" /\ tasks # {} THEN "gather"
                       ELSE mpc[n] ]
         /\ mloc' = [mloc EXCEPT !["loop"] =
                        [ tasks |-> tasks,
                          cycle |-> IF tasks = {} THEN @.cycle + 1 ELSE @.cycle ]]
    /\ UNCHANGED <<vcsVars, ret, thrVars, orchVars, cache, sources, nchecks>>

\* _monitor_source of a gathered task up to the return of _check_for_commits
L_CheckForCommits(n) ==
    /\ mpc[n] = "start"
    /\ \E api_data \in {None, Some("a1b2c3d4e5")} :
         sources' = [sources EXCEPT ![n] = _check_for_commits(sources[n], api_data)]
    /\ mpc' = [mpc EXCEPT ![n] = "fetch"]
    /\ UNCHANGED <<vcsVars, ret, thrVars, orchVars, cache, mloc, nchecks>>

L_Fetch(n) == M_FetchFrom(n, CycResponseInputs)

\* an exception in the task of n, where api_data is indexed or the cache file
\* is read, is caught and logged by the except of _monitor_source, and
\* gather(return_exceptions=True) would not let it through either
L_Raise_fatal(n) ==
    /\ mpc[n] \in {"start", "fetch"}
    /\ mpc' = [ m \in DOMAIN mpc |-> IF m = "loop" THEN "dead" ELSE "idle" ]
    /\ mloc' = [mloc EXCEPT ![n] = [ error |-> TRUE ]]
    /\ UNCHANGED <<vcsVars, ret, thrVars, orchVars, cache, sources, nchecks>>

L_Raise(n) ==
    /\ mpc[n] \in {"start", "fetch"}
    /\ mpc' = [mpc EXCEPT ![n] = "idle"]
    /\ mloc' = [mloc EXCEPT ![n] = [ error |-> TRUE ]]
    /\ UNCHANGED <<vcsVars, ret, thrVars, orchVars, cache, sources, nchecks>>

\* gather returns when every task is over; the configuration is saved and
\* the loop sleeps
L_Gathered ==
    /\ mpc["loop"] = "gather"
    /\ \A n \in mloc["loop"].tasks : mpc[n] = "idle"
    /\ mpc' = [mpc EXCEPT !["loop"] = "top"]
    /\ mloc' = [mloc EXCEPT !["loop"] = [ tasks |-> {}, cycle |-> @.cycle + 1 ]]
    /\ UNCHANGED <<vcsVars, ret, thrVars, orchVars, cache, sources, nchecks>>

NextCyc ==
    \/ L_Schedule
    \/ \E n \in CycSources : L_CheckForCommits(n)
    \/ \E n \in CycSources : L_Fetch(n)
    \/ \E n \in CycSources : L_Raise(n)
    \/ \E n \in CycSources : M_DetectChanges(n)
    \/ \E n \in CycSources : M_WriteCache(n)
    \/ \E n \in CycSources : M_QueuePut(n)
    \/ L_Gathered

SpecCyc == InitCyc /\ [][NextCyc]_vars

-----------------------------------------------------------------------------
(* SpecFifo: the update worker and the health worker on one ledger           *)
(*                                                                          *)
(* The two threads share self.version_control, which takes no lock: as in    *)
(* SpecConc a step of commit_changes or rollback_to_commit is one statement. *)
(* wpc[w] is where worker w is in its loop and tpc[w] where it is inside the *)
(* ledger call it is making. Validation is disabled, so the change worker    *)
(* routes every event to update_queue.                                       *)

LedgerCallers == {"update", "health"}

LedgerSteps == {"cc_build", "cc_save", "cc_branch", "cc_head", "cc_snapshot"}

\* two changes of one source, in the order the monitor enqueued them
FifoEvents ==
    << ChangeEvent("easylist", "a1b2c3d4e5", << <<"t", ".", "c">> >>),
       ChangeEvent("easylist", "0f9e8d7c6b", << <<"u", ".", "c">> >>) >>

\* the orchestrator started, the monitor having enqueued FifoEvents
InitFifo ==
    /\ SetInit
    /\ ret = [ op |-> "init" ]
    /\ tpc = [ w \in LedgerCallers |-> "idle" ]
    /\ tloc = [ w \in LedgerCallers |-> Idle ]
    /\ ncalls = 0
    /\ NoMonitor
    /\ config = AutoUpdateConfig(FALSE, TRUE, MaxAttempts)
    /\ running = TRUE
    /\ rollback_count = 0
    /\ last_update = 0
    /\ health_history = <<>>
    /\ pattern_engine \in { e \in IndexInputs : e.domain_index = <<>> }
    /\ change_queue = FifoEvents
    /\ validation_queue = <<>>
    /\ update_queue = <<>>
    /\ failure_log = <<>>
    /\ wpc = [ w \in Workers |-> "idle" ]
    /\ wloc = [ w \in Workers |-> <<>> ]
    /\ nevents = Len(FifoEvents)
    /\ npolls = 0

\* commit_changes entered with pattern_changes and message, line 215
F_EnterCommit(w, pattern_changes, message, validation_results) ==
    /\ tpc[w] = "idle"
    /\ tpc' = [tpc EXCEPT ![w] = "cc_build"]
    /\ tloc' = [tloc EXCEPT ![w] =
                  [ op |-> "commit_changes",
                    pattern_changes |-> pattern_changes,
                    current_patterns |-> _get_current_patterns(VCS),
                    message |-> message,
                    validation_results |-> validation_results ]]
    /\ UNCHANGED <<vcsVars, ret, ncalls, orchVars, monVars>>

\* _create_rollback_point("before_update") calls commit_changes
F_RollbackPointBegin ==
    /\ wpc["update"] = "rollback_point"
    /\ F_EnterCommit("update", Orch_get_current_patterns(pattern_engine),
                     Message("Rollback point: ", NULL, "before_update", 0), None)

\* _apply_pattern_update calls commit_changes
F_ApplyBegin ==
    /\ wpc["update"] = "apply"
    /\ LET change == wloc["update"].change
       IN  F_EnterCommit("update", _simulate_new_patterns(VCS, change),
                         Message("Auto-update from", NULL, change.source_name,
                                 change.changes.added_patterns),
                         wloc["update"].validation_results)

\* commit_changes, lines 218-231: the PatternCommit, parent_id=self.head_commit
F_BuildCommit(w) ==
    /\ tpc[w] = "cc_build"
    /\ LET l == tloc[w]
           id == _generate_commit_id(nextId)
           commit == PatternCommit(id, head_commit, Now(VCS), "auto-update-system",
                         l.message,
                         _calculate_changes(l.current_patterns, l.pattern_changes),
                         l.pattern_changes, l.validation_results, current_branch)
       IN  /\ tloc' = [tloc EXCEPT ![w] = [ op |-> l.op, commit |-> commit ]]
           /\ nextId' = nextId + 1
    /\ tpc' = [tpc EXCEPT ![w] = "cc_save"]
    /\ UNCHANGED <<commits, branches, rollbacks, snapshots, current_branch,
                   head_commit, ret, ncalls, orchVars, monVars>>

\* commit_changes, lines 239-244: _create_snapshot, return commit.commit_id
F_CreateSnapshot(w) ==
    /\ tpc[w] = "cc_snapshot"
    /\ snapshots' = _create_snapshot(snapshots, tloc[w].commit.commit_id,
                                     tloc[w].commit.pattern_snapshot)
    /\ tpc' = [tpc EXCEPT ![w] = "done"]
    /\ tloc' = [tloc EXCEPT ![w] = [ op |-> "commit_changes",
                                     value |-> tloc[w].commit.commit_id ]]
    /\ ncalls' = ncalls + 1
    /\ UNCHANGED <<commits, branches, rollbacks, current_branch, head_commit,
                   nextId, ret, orchVars, monVars>>

\* line 325: rollback_point = the id commit_changes returned
F_RollbackPointEnd ==
    /\ wpc["update"] = "rollback_point"
    /\ tpc["update"] = "done"
    /\ wloc' = [wloc EXCEPT !["update"] =
                  [ change |-> wloc["update"].change,
                    validation_results |-> wloc["update"].validation_results,
                    rollback_commit |-> tloc["update"].value,
                    reason |-> "update_application_failed" ]]
    /\ wpc' = [wpc EXCEPT !["update"] = "apply"]
    /\ tpc' = [tpc EXCEPT !["update"] = "idle"]
    /\ tloc' = [tloc EXCEPT !["update"] = Idle]
    /\ UNCHANGED <<vcsVars, ret, ncalls, monVars, config, running,
                   rollback_count, last_update, health_history, pattern_engine,
                   change_queue, validation_queue, update_queue, failure_log,
                   nevents, npolls>>

\* lines 329-331: _apply_pattern_update returned True
F_ApplyEnd ==
    /\ wpc["update"] = "apply"
    /\ tpc["update"] = "done"
    /\ wpc' = [wpc EXCEPT !["update"] = "success"]
    /\ tpc' = [tpc EXCEPT !["update"] = "idle"]
    /\ tloc' = [tloc EXCEPT !["update"] = Idle]
    /\ UNCHANGED <<vcsVars, ret, ncalls, monVars, config, running,
                   rollback_count, last_update, health_history, pattern_engine,
                   change_queue, validation_queue, update_queue, failure_log,
                   wloc, nevents, npolls>>

\* lines 335-343: _apply_pattern_update failed or raised inside commit_changes
F_ApplyRaises ==
    /\ wpc["update"] = "apply"
    /\ tpc["update"] \in LedgerSteps
    /\ wpc' = [wpc EXCEPT !["update"] =
                  IF config.auto_rollback THEN "perform_rollback" ELSE "idle"]
    /\ tpc' = [tpc EXCEPT !["update"] = "idle"]
    /\ tloc' = [tloc EXCEPT !["update"] = Idle]
    /\ UNCHANGED <<vcsVars, ret, ncalls, monVars, config, running,
                   rollback_count, last_update, health_history, pattern_engine,
                   change_queue, validation_queue, update_queue, failure_log,
                   wloc, nevents, npolls>>

\* _perform_rollback, line 523: rollback_to_commit entered, lines 351-354
F_LoadTarget(w) ==
    /\ wpc[w] = "rollback"
    /\ tpc[w] = "idle"
    /\ LET target_commit == _load_commit(commits, wloc[w].rollback_commit)
       IN  IF target_commit = None
           THEN /\ wpc' = [wpc EXCEPT ![w] = "idle"]
                /\ UNCHANGED <<tpc, tloc>>
           ELSE /\ tpc' = [tpc EXCEPT ![w] = "rb_point"]
                /\ tloc' = [tloc EXCEPT ![w] =
                              [ op |-> "rollback_to_commit",
                                commit_id |-> wloc[w].rollback_commit,
                                target_commit |-> target_commit[1] ]]
                /\ UNCHANGED wpc
    /\ UNCHANGED <<vcsVars, ret, ncalls, monVars, config, running,
                   rollback_count, last_update, health_history, pattern_engine,
                   change_queue, validation_queue, update_queue, failure_log,
                   wloc, nevents, npolls>>

\* lines 523-525: rollback_to_commit returned True
F_RollbackEnd(w) ==
    /\ wpc[w] = "rollback"
    /\ tpc[w] = "done"
    /\ wpc' = [wpc EXCEPT ![w] = "count"]
    /\ tpc' = [tpc EXCEPT ![w] = "idle"]
    /\ UNCHANGED <<vcsVars, ret, tloc, ncalls, monVars, config, running,
                   rollback_count, last_update, health_history, pattern_engine,
                   change_queue, validation_queue, update_queue, failure_log,
                   wloc, nevents, npolls>>

\* one critical sample of the health worker
F_Poll ==
    \E m \in CriticalMetrics :
        /\ npolls < MaxPolls
        /\ npolls' = npolls + 1
        /\ H_Collect(m)

NextFifo ==
    \/ C_GetPendingChanges
    \/ C_Route
    \/ U_Get
    \/ F_RollbackPointBegin
    \/ F_RollbackPointEnd
    \/ F_ApplyBegin
    \/ F_ApplyEnd
    \/ F_ApplyRaises
    \/ U_Success
    \/ F_Poll
    \/ H_Trigger
    \/ \E w \in LedgerCallers :
         \/ F_BuildCommit(w)
         \/ T_SaveCommit(w)
         \/ T_UpdateBranchHead(w)
         \/ CC_SetHead(w)
         \/ F_CreateSnapshot(w)
         \/ PR_Check(w)
         \/ F_LoadTarget(w)
         \/ RB_SaveRollbackPoint(w)
         \/ RB_BuildCommit(w)
         \/ RB_SetHead(w)
         \/ F_RollbackEnd(w)
         \/ PR_Count(w)

SpecFifo == InitFifo /\ [][NextFifo]_vars

\* the commits of the update of change whose commit_changes ran to its end
UpdateCommits(change) ==
    { c \in DOMAIN commits :
        /\ commits[c].message.text = "Auto-update from"
        /\ change.source_name \in DOMAIN commits[c].pattern_snapshot
        /\ "test_pattern_" \o Prefix8(change.commit_sha)
              \in Range(commits[c].pattern_snapshot[change.source_name])
        /\ c \in DOMAIN snapshots }

-----------------------------------------------------------------------------
(* OptimizedPatternEngine: the indexes and fast_domain_lookup               *)
(*                                                                          *)
(* A string is a sequence of characters. An engine is its domain_index, its  *)
(* url_pattern_index and the counters of stats that the lookup writes.       *)

\* the first position at which sub occurs in str, 0 when it does not
RECURSIVE find(_, _)
find(str, sub) ==
    IF Len(sub) > Len(str) THEN 0
    ELSE IF SubSeq(str, 1, Len(sub)) = sub THEN 1
    ELSE LET rest == find(Tail(str), sub)
         IN  IF rest = 0 THEN 0 ELSE rest + 1

\* sub in str
contains(str, sub) == find(str, sub) # 0

\* str.split(sub, 1)[0] and str.split(sub, 1)[1], for sub in str
split_head(str, sub) == SubSeq(str, 1, find(str, sub) - 1)

split_tail(str, sub) == SubSeq(str, find(str, sub) + Len(sub), Len(str))

\* str.lower(), for the letters of the inputs
lower(str) ==
    [ i \in DOMAIN str |->
        CASE str[i] = "C" -> "c"
          [] str[i] = "H" -> "h"
          [] str[i] = "O" -> "o"
          [] str[i] = "P" -> "p"
          [] str[i] = "T" -> "t"
          [] str[i] = "W" -> "w"
          [] OTHER -> str[i] ]

\* str.startswith(prefix)
has_prefix(str, prefix) ==
    Len(prefix) <= Len(str) /\ SubSeq(str, 1, Len(prefix)) = prefix

\* _extract_base_domain
_extract_base_domain(domain) ==
    LET stripped == strip(lower(domain))
        no_www == IF has_prefix(stripped, <<"w", "w", "w", ".">>)
                  THEN SubSeq(stripped, 5, Len(stripped)) ELSE stripped
        no_protocol == IF contains(no_www, <<":", "/", "/">>)
                       THEN split_tail(no_www, <<":", "/", "/">>) ELSE no_www
    IN  IF contains(no_protocol, <<"/">>)
        THEN split_head(no_protocol, <<"/">>) ELSE no_protocol

\* _extract_domain_from_url; url is None or Some(string), and `in` on None
\* raises a TypeError that the bare except turns into ""
_extract_domain_from_url(url) ==
    IF url = None THEN <<>>
    ELSE LET no_scheme == IF contains(url[1], <<":", "/", "/">>)
                          THEN split_tail(url[1], <<":", "/", "/">>) ELSE url[1]
             no_path == IF contains(no_scheme, <<"/">>)
                        THEN split_head(no_scheme, <<"/">>) ELSE no_scheme
         IN  lower(no_path)

Stats(total_lookups, cache_hits, cache_misses, domains_indexed) ==
    [ total_lookups |-> total_lookups, cache_hits |-> cache_hits,
      cache_misses |-> cache_misses, domains_indexed |-> domains_indexed ]

\* the engine __init__ sets up before _initialize_indexes
EmptyEngine ==
    [ domain_index |-> <<>>, url_pattern_index |-> <<>>, stats |-> Stats(0, 0, 0, 0) ]

\* fast_domain_lookup: what it returns and the engine after it
fast_domain_lookup(engine, url) ==
    LET counted == [engine EXCEPT !.stats.total_lookups = @ + 1]
        domain == _extract_domain_from_url(url)
        base_domain == _extract_base_domain(domain)
    IN  IF domain = <<>>
        THEN [ value |-> None, engine |-> counted ]
        ELSE IF base_domain \in DOMAIN engine.domain_index
        THEN [ value |-> Some(engine.domain_index[base_domain]),
               engine |-> [counted EXCEPT !.stats.cache_hits = @ + 1] ]
        ELSE [ value |-> None,
               engine |-> [counted EXCEPT !.stats.cache_misses = @ + 1] ]

\* dict[key] = value
SetItem(dict, key, value) ==
    [ k \in DOMAIN dict \cup {key} |-> IF k = key THEN value ELSE dict[k] ]

\* the statements the loop of _index_mailtracker_patterns runs for items
RECURSIVE MailtrackerOps(_)
MailtrackerOps(items) ==
    IF items = <<>> THEN <<>>
    ELSE LET item == Head(items)
         IN  ( IF item.domain # <<>> /\ item.pattern # <<>>
               THEN << [ op |-> "mt_entry", domain |-> item.domain ],
                       [ op |-> "mt_append", domain |-> item.domain,
                         pattern |-> item.pattern ],
                       [ op |-> "mt_count" ] >>
               ELSE <<>> ) \o MailtrackerOps(Tail(items))

\* the statements the loops of _index_github_patterns run
RECURSIVE GithubOps(_, _)
GithubOps(domains, url_patterns) ==
    IF domains = <<>> THEN <<>>
    ELSE LET domain == Head(domains)
             kept == SelectSeq(url_patterns, LAMBDA u : Len(u) > 5)
         IN  ( IF Len(domain) > 3 /\ contains(domain, <<".">>)
               THEN << [ op |-> "gh_entry", domain |-> domain ] >>
                      \o [ i \in DOMAIN kept |->
                             [ op |-> "gh_url", domain |-> domain,
                               url_pattern |-> kept[i] ] ]
               ELSE <<>> ) \o GithubOps(Tail(domains), url_patterns)

\* the statements of _initialize_indexes on the files data; a missing file is
\* None
IndexOps(data) ==
    ( IF data.mailtracker = None THEN <<>>
      ELSE MailtrackerOps(data.mailtracker[1]) )
    \o ( IF data.github = None THEN <<>>
         ELSE GithubOps(data.github[1].domains, data.github[1].url_patterns) )

\* one statement of the index build on engine
IndexStep(engine, o) ==
    LET base_domain == _extract_base_domain(o.domain)
        index == engine.domain_index
    IN  CASE o.op = "mt_entry" ->
               IF base_domain \in DOMAIN index THEN engine
               ELSE [engine EXCEPT !.domain_index =
                       SetItem(index, base_domain,
                               [ threat_level |-> "critical", source |-> "MailTracker",
                                 patterns |-> <<>>, confidence |-> "high" ])]
          [] o.op = "mt_append" ->
               [engine EXCEPT !.domain_index[base_domain].patterns =
                                  Append(@, o.pattern)]
          [] o.op = "mt_count" ->
               [engine EXCEPT !.stats.domains_indexed = @ + 1]
          [] o.op = "gh_entry" ->
               IF base_domain \in DOMAIN index THEN engine
               ELSE [engine EXCEPT !.domain_index =
                       SetItem(index, base_domain,
                               [ threat_level |-> "medium", source |-> "GitHub",
                                 patterns |-> <<>>, confidence |-> "medium" ])]
          [] o.op = "gh_url" ->
               [engine EXCEPT !.url_pattern_index =
                   SetItem(@, base_domain,
                           Append(IF base_domain \in DOMAIN @ THEN @[base_domain]
                                  ELSE <<>>, o.url_pattern))]

\* the engine after the statements ops
RECURSIVE RunIndexOps(_, _)
RunIndexOps(engine, ops) ==
    IF ops = <<>> THEN engine
    ELSE RunIndexOps(IndexStep(engine, Head(ops)), Tail(ops))

\* OptimizedPatternEngine() on the files data
BuildIndex(data) == RunIndexOps(EmptyEngine, IndexOps(data))

\* the cache files: www.t.co and t.co with one pattern each and x.io from
\* GitHub, or no MailTracker file and t.co and x.io from GitHub
DataInputs ==
    { [ mailtracker |-> Some(<< [ domain |-> <<"w", "w", "w", ".", "t", ".", "c", "o">>, pattern |-> <<"p", "1">> ],
                                [ domain |-> <<"t", ".", "c", "o">>, pattern |-> <<"p", "2">> ] >>),
        github |-> Some([ domains |-> << <<"x", ".", "i", "o">> >>,
                          url_patterns |-> << <<"/", "p", "i", "x", "e", "l">>, <<"/", "t">> >> ]) ],
      [ mailtracker |-> None,
        github |-> Some([ domains |-> << <<"t", ".", "c", "o">>, <<"x", ".", "i", "o">> >>,
                          url_patterns |-> << <<"/", "p", "i", "x", "e", "l">> >> ]) ] }

\* the arguments of fast_domain_lookup: None, "", "://", "https://www.t.co/a",
\* "t.co", "HTTP://T.CO", "https://x.io/a", "https://n.io/a",
\* "t.co/a://x.io" and "https://t.co:80/a"
UrlInputs ==
    { None, Some(<<>>), Some(<<":", "/", "/">>),
      Some(<<"h", "t", "t", "p", "s", ":", "/", "/", "w", "w", "w", ".", "t", ".", "c", "o", "/", "a">>), Some(<<"t", ".", "c", "o">>), Some(<<"H", "T", "T", "P", ":", "/", "/", "T", ".", "C", "O">>), Some(<<"h", "t", "t", "p", "s", ":", "/", "/", "x", ".", "i", "o", "/", "a">>), Some(<<"h", "t", "t", "p", "s", ":", "/", "/", "n", ".", "i", "o", "/", "a">>), Some(<<"t", ".", "c", "o", "/", "a", ":", "/", "/", "x", ".", "i", "o">>),
      Some(<<"h", "t", "t", "p", "s", ":", "/", "/", "t", ".", "c", "o", ":", "8", "0", "/", "a">>) }

(* SpecIdx: a thread constructs engines statement by statement and stores    *)
(* the constructed engine in pattern_engine, another looks domains up        *)

IndexThreads == {"main", "reader"}

\* engines constructed in SpecIdx
MaxBuilds == 2

\* lookups made on one engine in SpecIdx
MaxLookups == 2

InitIdx ==
    /\ SetInit
    /\ ret = [ op |-> "init" ]
    /\ tpc = [ t \in IndexThreads |-> "idle" ]
    /\ tloc = [ t \in IndexThreads |-> <<>> ]
    /\ ncalls = 0
    /\ NoMonitor
    /\ config = <<>>
    /\ running = FALSE
    /\ rollback_count = 0
    /\ last_update = 0
    /\ health_history = <<>>
    /\ pattern_engine = None
    /\ change_queue = <<>>
    /\ validation_queue = <<>>
    /\ update_queue = <<>>
    /\ failure_log = <<>>
    /\ wpc = <<>>
    /\ wloc = <<>>
    /\ nevents = 0
    /\ npolls = 0

\* what the threads of SpecIdx never touch
notIdx ==
    <<vcsVars, monVars, config, running, rollback_count, last_update,
      health_history, change_queue, validation_queue, update_queue,
      failure_log, wpc, wloc, nevents, npolls>>

\* OptimizedPatternEngine() is entered: __init__ up to _initialize_indexes,
\* with the cache files holding data
X_New ==
    /\ tpc["main"] = "idle"
    /\ ncalls < MaxBuilds
    /\ ncalls' = ncalls + 1
    /\ \E data \in DataInputs :
         tloc' = [tloc EXCEPT !["main"] =
                     [ engine |-> EmptyEngine, ops |-> IndexOps(data) ]]
    /\ tpc' = [tpc EXCEPT !["main"] = "build"]
    /\ UNCHANGED <<notIdx, ret, pattern_engine>>

\* a build that writes each statement into the engine the readers use
X_Step_inplace ==
    /\ tpc["main"] = "build"
    /\ tloc["main"].ops # <<>>
    /\ tloc' = [tloc EXCEPT !["main"] =
                   [ engine |-> IndexStep(@.engine, Head(@.ops)),
                     ops |-> Tail(@.ops) ]]
    /\ pattern_engine' = Some(tloc'["main"].engine)
    /\ UNCHANGED <<notIdx, ret, tpc, ncalls>>

\* one statement of the index build, on the engine under construction
X_Step ==
    /\ tpc["main"] = "build"
    /\ tloc["main"].ops # <<>>
    /\ tloc' = [tloc EXCEPT !["main"] =
                   [ engine |-> IndexStep(@.engine, Head(@.ops)),
                     ops |-> Tail(@.ops) ]]
    /\ UNCHANGED <<notIdx, ret, tpc, ncalls, pattern_engine>>

\* the constructor returns and the engine is stored in pattern_engine
X_Publish ==
    /\ tpc["main"] = "build"
    /\ tloc["main"].ops = <<>>
    /\ pattern_engine' = Some(tloc["main"].engine)
    /\ tpc' = [tpc EXCEPT !["main"] = "idle"]
    /\ tloc' = [tloc EXCEPT !["main"] = <<>>]
    /\ UNCHANGED <<notIdx, ret, ncalls>>

\* a reader calls fast_domain_lookup(url) on the stored engine
X_Lookup ==
    /\ pattern_engine # None
    /\ pattern_engine[1].stats.total_lookups < MaxLookups
    /\ \E url \in UrlInputs :
         LET r == fast_domain_lookup(pattern_engine[1], url)
         IN  /\ pattern_engine' = Some(r.engine)
             /\ ret' = [ op |-> "fast_domain_lookup", url |-> url,
                         value |-> r.value ]
    /\ UNCHANGED <<notIdx, thrVars>>

NextIdx ==
    \/ X_New
    \/ X_Step
    \/ X_Publish
    \/ X_Lookup

SpecIdx == InitIdx /\ [][NextIdx]_vars

\* the two indexes of an engine
IndexesOf(engine) ==
    [ domain_index |-> engine.domain_index,
      url_pattern_index |-> engine.url_pattern_index ]

\* the indexes the constructor builds from some files
CompleteIndexes == { IndexesOf(BuildIndex(data)) : data \in DataInputs }

\* C23: the index is replaced as a whole: the engine the readers use holds at
\* every moment the complete index of some build, and every lookup returns
\* what a complete index holds for its URL, also while the next index is
\* being built
C23_AtomicRebuild ==
    /\ pattern_engine # None => IndexesOf(pattern_engine[1]) \in CompleteIndexes
    /\ ret.op = "fast_domain_lookup" =>
         \E data \in DataInputs :
             ret.value = fast_domain_lookup(BuildIndex(data), ret.url).value

\* C23 witness: a lookup has returned an entry from the stored index while the
\* engine under construction holds that domain with no pattern yet
C23_Witness ==
    /\ tpc["main"] = "build"
    /\ pattern_engine # None
    /\ ret.op = "fast_domain_lookup"
    /\ ret.value # None
    /\ ret.value[1].patterns # <<>>
    /\ \E k \in DOMAIN tloc["main"].engine.domain_index :
         /\ tloc["main"].engine.domain_index[k].patterns = <<>>
         /\ k \in DOMAIN pattern_engine[1].domain_index
         /\ pattern_engine[1].domain_index[k] = ret.value[1]

\* str up to the first occurrence of sub, all of it when there is none
Before(str, sub) == IF contains(str, sub) THEN split_head(str, sub) ELSE str

\* the host of a URL: what follows the scheme, when "://" comes before any
\* "/", up to the path and without the port, in lower case and without a
\* leading "www."
HostKey(url) ==
    LET has_scheme == contains(url, <<":", "/", "/">>)
                      /\ ~ contains(split_head(url, <<":", "/", "/">>), <<"/">>)
        rest == IF has_scheme THEN split_tail(url, <<":", "/", "/">>) ELSE url
        host == lower(Before(Before(rest, <<"/">>), <<":">>))
    IN  IF has_prefix(host, <<"w", "w", "w", ".">>) THEN SubSeq(host, 5, Len(host)) ELSE host

\* a step that is a call of fast_domain_lookup
IsLookup == pattern_engine # None /\ ret'.op = "fast_domain_lookup" /\ ret'.url \in UrlInputs /\ pattern_engine' # pattern_engine /\ UNCHANGED tpc

\* C24: fast_domain_lookup returns the entry stored under the host of the URL
\* when the index has that key and None when it has not or when the URL is
\* None, empty or without a host, and it changes neither index
C24_LookupByHost ==
    [][ IsLookup =>
          LET index == pattern_engine[1].domain_index
              key == IF ret'.url = None THEN <<>> ELSE HostKey(ret'.url[1])
          IN  /\ ret'.value = IF key \in DOMAIN index THEN Some(index[key]) ELSE None
              /\ IndexesOf(pattern_engine'[1]) = IndexesOf(pattern_engine[1]) ]_vars

-----------------------------------------------------------------------------
(* SpecStop: the five worker loops with their `while self.running` tests and  *)
(* stop(). A worker at "idle" is about to evaluate the loop condition, at     *)
(* "in" it has found it true, at "done" it has left its loop.                 *)

LoopWorkers == Workers \cup {"scheduler"}

InitStop ==
    /\ SetInit
    /\ ret = [ op |-> "init" ]
    /\ NoThreads
    /\ NoMonitor
    /\ config \in { AutoUpdateConfig(ve, TRUE, MaxAttempts) : ve \in BOOLEAN }
    /\ running = TRUE
    /\ rollback_count = 0
    /\ last_update = 0
    /\ health_history = <<>>
    /\ pattern_engine \in { e \in IndexInputs : e.domain_index = <<>> }
    /\ change_queue = <<FifoEvents[1]>>
    /\ validation_queue = <<>>
    /\ update_queue = <<>>
    /\ failure_log = <<>>
    /\ wpc = [ w \in LoopWorkers |-> "idle" ]
    /\ wloc = [ w \in LoopWorkers |-> <<>> ]
    /\ nevents = 1
    /\ npolls = 0

\* a loop that is entered whatever running holds
S_Test_blind(w) ==
    /\ wpc[w] = "idle"
    /\ w = "health" => npolls < MaxPolls \/ ~running
    /\ wpc' = [wpc EXCEPT ![w] = "in"]
    /\ UNCHANGED <<vcsVars, ret, thrVars, monVars, config, running, rollback_count,
                   last_update, health_history, pattern_engine, change_queue,
                   validation_queue, update_queue, failure_log, wloc, nevents,
                   npolls>>

\* while self.running: of the loop of worker w
S_Test(w) ==
    /\ wpc[w] = "idle"
    /\ w = "health" => npolls < MaxPolls \/ ~running
    /\ wpc' = [wpc EXCEPT ![w] = IF running THEN "in" ELSE "done"]
    /\ UNCHANGED <<vcsVars, ret, thrVars, monVars, config, running, rollback_count,
                   last_update, health_history, pattern_engine, change_queue,
                   validation_queue, update_queue, failure_log, wloc, nevents,
                   npolls>>

\* _change_processor, line 259: changes = get_pending_changes(); with no
\* change the for loop is empty and the worker sleeps
S_GetPendingChanges ==
    /\ wpc["change"] = "in"
    /\ wloc' = [wloc EXCEPT !["change"] = change_queue]
    /\ change_queue' = <<>>
    /\ wpc' = [wpc EXCEPT !["change"] = IF change_queue = <<>> THEN "idle" ELSE "route"]
    /\ UNCHANGED <<vcsVars, ret, thrVars, monVars, config, running, rollback_count,
                   last_update, health_history, pattern_engine,
                   validation_queue, update_queue, failure_log, nevents, npolls>>

\* _validation_processor, line 287: validation_queue.get(timeout=5) returns a
\* change or raises queue.Empty
S_ValidationGet ==
    /\ wpc["validation"] = "in"
    /\ IF validation_queue = <<>>
       THEN /\ wpc' = [wpc EXCEPT !["validation"] = "idle"]
            /\ UNCHANGED <<wloc, validation_queue>>
       ELSE /\ wloc' = [wloc EXCEPT !["validation"] = Head(validation_queue)]
            /\ validation_queue' = Tail(validation_queue)
            /\ wpc' = [wpc EXCEPT !["validation"] = "validate"]
    /\ UNCHANGED <<vcsVars, ret, thrVars, monVars, config, running, rollback_count,
                   last_update, health_history, pattern_engine, change_queue,
                   update_queue, failure_log, nevents, npolls>>

\* _update_processor, line 320: update_queue.get(timeout=5) returns a change
\* and its results or raises queue.Empty
S_UpdateGet ==
    /\ wpc["update"] = "in"
    /\ IF update_queue = <<>>
       THEN /\ wpc' = [wpc EXCEPT !["update"] = "idle"]
            /\ UNCHANGED <<wloc, update_queue>>
       ELSE /\ wloc' = [wloc EXCEPT !["update"] =
                          [ change |-> Head(update_queue)[1],
                            validation_results |-> Head(update_queue)[2] ]]
            /\ update_queue' = Tail(update_queue)
            /\ wpc' = [wpc EXCEPT !["update"] = "rollback_point"]
    /\ UNCHANGED <<vcsVars, ret, thrVars, monVars, config, running, rollback_count,
                   last_update, health_history, pattern_engine, change_queue,
                   validation_queue, failure_log, nevents, npolls>>

\* _health_monitor, lines 357-371: sample, remember, react to critical, sleep
S_Collect ==
    /\ wpc["health"] = "in"
    /\ \E m \in MetricsInputs :
         LET health == _collect_health_metrics(VCS, m)
             appended == Append(health_history, health.status)
         IN  /\ health_history' =
                   IF Len(appended) > HealthHistoryCap
                   THEN SubSeq(appended, Len(appended) - HealthHistoryCap + 1,
                               Len(appended))
                   ELSE appended
             /\ wpc' = [wpc EXCEPT !["health"] =
                           IF health.status = "critical" /\ config.auto_rollback
                           THEN "trigger" ELSE "idle"]
             /\ wloc' = [wloc EXCEPT !["health"] = [ status |-> health.status ]]
    /\ npolls' = npolls + 1
    /\ UNCHANGED <<vcsVars, ret, thrVars, monVars, config, running, rollback_count,
                   last_update, pattern_engine, change_queue, validation_queue,
                   update_queue, failure_log, nevents>>

\* _run_scheduler, lines 249-250: schedule.run_pending(), whose jobs only
\* log, and time.sleep(1)
S_RunPending ==
    /\ wpc["scheduler"] = "in"
    /\ wpc' = [wpc EXCEPT !["scheduler"] = "idle"]
    /\ UNCHANGED <<vcsVars, ret, thrVars, monVars, config, running, rollback_count,
                   last_update, health_history, pattern_engine, change_queue,
                   validation_queue, update_queue, failure_log, wloc, nevents,
                   npolls>>

\* the steps of worker w
S_Worker(w) ==
    \/ S_Test(w)
    \/ w = "change" /\ (S_GetPendingChanges \/ C_Route)
    \/ w = "validation" /\ (S_ValidationGet \/ V_Validate)
    \/ w = "update" /\ (S_UpdateGet \/ U_CreateRollbackPoint \/ U_Apply \/ U_Success)
    \/ w = "health" /\ (S_Collect \/ H_Trigger)
    \/ w \in RollbackWorkers /\ (PR_Check(w) \/ PR_Rollback(w) \/ PR_Count(w))
    \/ w = "scheduler" /\ S_RunPending

NextStop ==
    \/ Stop
    \/ \E w \in LoopWorkers : S_Test(w)
    \/ S_GetPendingChanges
    \/ C_Route
    \/ S_ValidationGet
    \/ V_Validate
    \/ S_UpdateGet
    \/ U_CreateRollbackPoint
    \/ U_Apply
    \/ U_Success
    \/ S_Collect
    \/ H_Trigger
    \/ \E w \in RollbackWorkers : PR_Check(w)
    \/ \E w \in RollbackWorkers : PR_Rollback(w)
    \/ \E w \in RollbackWorkers : PR_Count(w)
    \/ S_RunPending

\* while a worker thread can take a step, some worker thread is scheduled
SpecStop ==
    InitStop /\ [][NextStop]_vars /\ WF_vars(\E w \in LoopWorkers : S_Worker(w))

\* the items worker w has taken from its queue and not yet finished
InHand(w) ==
    CASE w = "change" -> wloc[w]
      [] w \in {"validation", "update"} ->
           IF wpc[w] \in {"idle", "in", "done"} THEN <<>> ELSE <<wloc[w]>>
      [] OTHER -> <<>>

-----------------------------------------------------------------------------
(* Properties of the update worker                                          *)

\* a step in which the update worker leaves position pos
UpdateLeaves(pos) == wpc["update"] = pos /\ wpc'["update"] # pos

\* C26: when _apply_pattern_update returns, either it succeeded, a new
\* "Auto-update from" commit is the head of the branch and rollback_count is
\* then set to 0; or it failed with auto_rollback and _perform_rollback is
\* entered with the rollback point made for this change; or it failed without
\* auto_rollback, nothing more is done and the ledger is what it was after
\* the rollback point was made
C26_CommitOutcome ==
    [][ /\ UpdateLeaves("apply") =>
             \/ /\ wpc'["update"] = "success"
                /\ head_commit' \notin DOMAIN commits
                /\ head_commit' \in DOMAIN commits'
                /\ commits'[head_commit'].message.text = "Auto-update from"
                /\ branches'[current_branch'] = head_commit'
             \/ /\ wpc'["update"] = "perform_rollback"
                /\ config.auto_rollback
                /\ wloc'["update"].rollback_commit = wloc["update"].rollback_commit
                /\ commits[wloc["update"].rollback_commit].message.text = "Rollback point: "
             \/ /\ wpc'["update"] = "idle"
                /\ ~config.auto_rollback
                /\ UNCHANGED vcsVars
        /\ UpdateLeaves("success") => rollback_count' = 0 ]_vars

\* C27: making the rollback point before an update only records the head:
\* the id the update worker keeps is the head of that moment, and the head,
\* the branch heads and the stored commits are the same after as before
C27_RollbackPointFrame ==
    [][ UpdateLeaves("rollback_point") =>
          /\ wloc'["update"].rollback_commit = head_commit
          /\ head_commit' = head_commit
          /\ branches' = branches
          /\ DOMAIN commits' = DOMAIN commits ]_vars

-----------------------------------------------------------------------------
(* Properties of the emergency rollback                                     *)

\* the first commit from commit_id along parent_id that is no rollback, None
\* when the chain has none
RECURSIVE FirstStable(_)
FirstStable(commit_id) ==
    IF commit_id \notin DOMAIN commits THEN None
    ELSE IF commits[commit_id].changes.type # "rollback" THEN Some(commit_id)
    ELSE FirstStable(commits[commit_id].parent_id)

\* C28: an emergency rollback triggered below the ceiling goes for the most
\* recent commit from the head that is no rollback, however many rollback
\* commits lie before it; with no such commit it does not just return
C28_EmergencyTarget ==
    [][ ( /\ wpc["health"] = "trigger"
          /\ wpc'["health"] # "trigger"
          /\ config.auto_rollback
          /\ rollback_count < config.max_rollback_attempts )
        => IF FirstStable(head_commit) # None
           THEN /\ wpc'["health"] = "perform_rollback"
                /\ wloc'["health"].rollback_commit = FirstStable(head_commit)[1]
           ELSE wpc'["health"] # "idle" ]_vars

-----------------------------------------------------------------------------
(* Properties of the change worker                                          *)

\* C29: a turn of the change worker's for loop puts the change it handles on
\* one queue and leaves the other alone: on update_queue with no validation
\* results when validation_enabled is false, on validation_queue when it is
\* true; and on neither while emergency_stop is true
C29_Routing ==
    [][ ( /\ wpc["change"] = "route"
          /\ wloc'["change"] # wloc["change"] )
        => LET change == Head(wloc["change"])
           IN  CASE config.emergency_stop ->
                      /\ validation_queue' = validation_queue
                      /\ update_queue' = update_queue
                 [] ~config.emergency_stop /\ config.validation_enabled ->
                      /\ validation_queue' = Append(validation_queue, change)
                      /\ update_queue' = update_queue
                 [] OTHER ->
                      /\ update_queue' = Append(update_queue, <<change, None>>)
                      /\ validation_queue' = validation_queue ]_vars

\* C29 witness: of two changes drained together the first is on
\* validation_queue and nowhere else, the second still in the worker's hands
C29_Witness ==
    /\ wpc["change"] = "route"
    /\ config.validation_enabled
    /\ ~config.emergency_stop
    /\ Len(wloc["change"]) = 1
    /\ Len(validation_queue) = 1
    /\ validation_queue[1] # wloc["change"][1]
    /\ update_queue = <<>>

-----------------------------------------------------------------------------
(* Properties of the delivery of change events                              *)

\* worker w goes from position from to position to
Moves(w, from, to) == wpc[w] = from /\ wpc'[w] = to

\* the change events in queues and in the hands of workers
EventsInFlight ==
    Range(change_queue) \cup Range(wloc["change"]) \cup Range(validation_queue)
    \cup { update_queue[i][1] : i \in DOMAIN update_queue }
    \cup ( IF wpc["validation"] = "validate" THEN {wloc["validation"]} ELSE {} )
    \cup ( IF wpc["update"] # "idle" THEN {wloc["update"].change} ELSE {} )

\* C30: an event put on change_queue is handed on, never copied and never
\* changed: get_pending_changes returns all the queued events and leaves none
\* behind, the validation worker and the update worker each take the head of
\* their queue off it, an event goes onto a queue only from the hands of the
\* worker before, and what is in flight is always an event as it was created
C30_ExactlyOnce ==
    /\ [][ /\ Moves("change", "idle", "route") =>
                /\ wloc'["change"] = change_queue
                /\ change_queue' = <<>>
           /\ change_queue' # change_queue =>
                \/ Moves("change", "idle", "route")
                \/ /\ Len(change_queue') = Len(change_queue) + 1
                   /\ SubSeq(change_queue', 1, Len(change_queue)) = change_queue
                   /\ UNCHANGED <<wpc, wloc, validation_queue, update_queue>>
           /\ Moves("validation", "idle", "validate") =>
                /\ wloc'["validation"] = Head(validation_queue)
                /\ validation_queue' = Tail(validation_queue)
           /\ validation_queue' # validation_queue =>
                \/ Moves("validation", "idle", "validate")
                \/ /\ wpc["change"] = "route"
                   /\ validation_queue' = Append(validation_queue, Head(wloc["change"]))
                   /\ wloc'["change"] = Tail(wloc["change"])
           /\ Moves("update", "idle", "rollback_point") =>
                /\ wloc'["update"].change = Head(update_queue)[1]
                /\ update_queue' = Tail(update_queue)
           /\ update_queue' # update_queue =>
                \/ Moves("update", "idle", "rollback_point")
                \/ /\ wpc["change"] = "route"
                   /\ update_queue' = Append(update_queue, <<Head(wloc["change"]), None>>)
                   /\ wloc'["change"] = Tail(wloc["change"])
                \/ /\ Moves("validation", "validate", "idle")
                   /\ Len(update_queue') = Len(update_queue) + 1
                   /\ SubSeq(update_queue', 1, Len(update_queue)) = update_queue
                   /\ update_queue'[Len(update_queue')][1] = wloc["validation"]
           /\ (wpc["update"] # "idle" /\ wpc'["update"] # "idle") =>
                wloc'["update"].change = wloc["update"].change
           /\ (wpc["validation"] = "validate" /\ wpc'["validation"] = "validate") =>
                wloc'["validation"] = wloc["validation"] ]_vars
    /\ [](EventsInFlight \subseteq EventInputs)

\* C30 witness: two events were put; the first went through validation and
\* is in the hands of the update worker, the second waits on validation_queue
C30_Witness ==
    /\ nevents = 2
    /\ wpc["update"] = "apply"
    /\ wloc["update"].validation_results # None
    /\ Len(validation_queue) = 1
    /\ change_queue = <<>>
    /\ wloc["change"] = <<>>
    /\ update_queue = <<>>
    /\ wpc["validation"] = "idle"

-----------------------------------------------------------------------------
(* SpecSched: the monitoring loop of one source with its clock. The loop     *)
(* keeps the time in seconds and the time at which each source was last      *)
(* scheduled; last_check of a source is the time of its last 200 answer.     *)

SchedSources == {"ublock_privacy"}

\* poll_interval of ublock_privacy, in minutes
PollInterval == 60

\* asyncio.sleep(30) at the end of a cycle
CycleSleep == 30

\* cycles of _monitoring_loop made in SpecSched
MaxSchedCycles == 3

InitSched ==
    /\ SetInit
    /\ ret = [ op |-> "init" ]
    /\ NoThreads
    /\ NoOrchestrator
    /\ cache \in { <<>>, [ n \in SchedSources |-> <<"a", "\n", "b">> ] }
    /\ sources = [ n \in SchedSources |-> GitHubSource("", "") ]
    /\ mpc = [ n \in SchedSources \cup {"loop"} |-> IF n = "loop" THEN "top" ELSE "idle" ]
    /\ mloc = [ n \in SchedSources \cup {"loop"} |->
                  IF n = "loop"
                  THEN [ tasks |-> {}, cycle |-> 0, now |-> 0,
                         scheduled |-> [ m \in SchedSources |-> None ] ]
                  ELSE <<>> ]
    /\ nchecks = 0

\* the test of the for loop of _monitoring_loop at time current_time
IsDue(source, current_time) ==
    \/ source.last_check = None
    \/ current_time - source.last_check[1] >= PollInterval * 60

\* one pass of the for loop of _monitoring_loop; with no task the loop sleeps
T_Schedule ==
    /\ mpc["loop"] = "top"
    /\ mloc["loop"].cycle < MaxSchedCycles
    /\ LET current_time == mloc["loop"].now
           tasks == { n \in SchedSources : IsDue(sources[n], current_time) }
       IN  /\ mpc' = [ n \in DOMAIN mpc |->
                         IF n \in tasks THEN "start"
                         ELSE IF n = "loop" /\ tasks # {} THEN "gather"
                         ELSE mpc[n] ]
           /\ mloc' = [mloc EXCEPT !["loop"] =
                          [ tasks |-> tasks,
                            cycle |-> IF tasks = {} THEN @.cycle + 1 ELSE @.cycle,
                            now |-> IF tasks = {} THEN @.now + CycleSleep ELSE @.now,
                            scheduled |-> [ n \in SchedSources |->
                                              IF n \in tasks THEN Some(current_time)
                                              ELSE @.scheduled[n] ] ]]
    /\ UNCHANGED <<vcsVars, ret, thrVars, orchVars, cache, sources, nchecks>>

\* _fetch_with_etag at time now: source.last_check = time.time() on a 200
_fetch_with_etag_at(source, response, now) ==
    IF response.status = 200
    THEN [ _fetch_with_etag(source, response) EXCEPT !.last_check = Some(now) ]
    ELSE source

\* the cache file is read and _fetch_with_etag returns one of the answers
T_Fetch(n) ==
    /\ mpc[n] = "fetch"
    /\ \E response \in CycResponseInputs :
         LET old_content == IF n \in DOMAIN cache THEN Some(cache[n]) ELSE None
         IN  /\ sources' = [sources EXCEPT ![n] =
                               _fetch_with_etag_at(sources[n], response,
                                                   mloc["loop"].now)]
             /\ IF response.status = 200 /\ response.text # <<>>
                THEN /\ mpc' = [mpc EXCEPT ![n] = "detect"]
                     /\ mloc' = [mloc EXCEPT ![n] =
                                   [ old_content |-> old_content,
                                     new_content |-> response.text ]]
                ELSE /\ mpc' = [mpc EXCEPT ![n] = "idle"]
                     /\ mloc' = [mloc EXCEPT ![n] = <<>>]
    /\ UNCHANGED <<vcsVars, ret, thrVars, orchVars, cache, nchecks>>

\* gather returns, the configuration is saved and the loop sleeps
T_Gathered ==
    /\ mpc["loop"] = "gather"
    /\ \A n \in mloc["loop"].tasks : mpc[n] = "idle"
    /\ mpc' = [mpc EXCEPT !["loop"] = "top"]
    /\ mloc' = [mloc EXCEPT !["loop"] =
                   [ tasks |-> {}, cycle |-> @.cycle + 1,
                     now |-> @.now + CycleSleep, scheduled |-> @.scheduled ]]
    /\ UNCHANGED <<vcsVars, ret, thrVars, orchVars, cache, sources, nchecks>>

NextSched ==
    \/ T_Schedule
    \/ \E n \in SchedSources : L_CheckForCommits(n)
    \/ \E n \in SchedSources : T_Fetch(n)
    \/ \E n \in SchedSources : L_Raise(n)
    \/ \E n \in SchedSources : M_DetectChanges(n)
    \/ \E n \in SchedSources : M_WriteCache(n)
    \/ \E n \in SchedSources : M_QueuePut(n)
    \/ T_Gathered

SpecSched == InitSched /\ [][NextSched]_vars

\* C31: a source is scheduled again only when poll_interval has passed since
\* it was last scheduled, whether that poll fetched the content or failed
C31_NormalSchedule ==
    [][ ( mpc["loop"] = "top" /\ mloc'["loop"] # mloc["loop"] )
        => \A n \in mloc'["loop"].tasks :
             \/ mloc["loop"].scheduled[n] = None
             \/ mloc["loop"].now >= mloc["loop"].scheduled[n][1] + PollInterval * 60 ]_vars

-----------------------------------------------------------------------------
(* Properties of a poll that finds nothing new                              *)

\* the poll of n holds a fetched content equal to the cached content
FetchedSame(n) ==
    /\ mpc[n] = "detect"
    /\ mloc[n].old_content = Some(mloc[n].new_content)

\* C32: a poll that ends at the fetch (not modified, an error, no content)
\* or that fetched the cached content enqueues no event and does not write
\* the cache file; the cache is written and an event enqueued only by a poll
\* whose fetched content differs from the cached content
C32_UnchangedNoEvent ==
    [][ /\ \A n \in MonSources :
             /\ (mpc[n] = "fetch" /\ mpc'[n] = "idle") =>
                   cache' = cache /\ change_queue' = change_queue
             /\ (FetchedSame(n) /\ mpc'[n] # "detect") =>
                   /\ mpc'[n] \in {"idle", "killed"}
                   /\ cache' = cache
                   /\ change_queue' = change_queue
        /\ (cache' # cache \/ Len(change_queue') > Len(change_queue)) =>
             \E n \in MonSources :
                 /\ mpc[n] \in {"write", "put"}
                 /\ mloc[n].old_content # Some(mloc[n].new_content) ]_vars

\* C32 witness: the second poll has fetched exactly the cached content
C32_Witness ==
    \E n \in MonSources :
        /\ FetchedSame(n)
        /\ nchecks = 2
        /\ sources[n].last_check # None

-----------------------------------------------------------------------------
(* SpecNorm: polls that fetch contents differing from the cached "a\nb" in   *)
(* a comment line, in an empty line, in a line of blanks, or in a pattern    *)

NormContentInputs ==
    { <<"a", "\n", "b">>,
      <<"a", "\n", "#", "x", "\n", "b">>,
      <<"a", "\n", "\n", "b">>,
      <<"a", "\n", " ", "\n", "b">>,
      <<"a", "\n", "b", "\n", "c">> }

NormResponseInputs ==
    { [ status |-> 304, text |-> <<>>, etag |-> "" ] }
    \cup { [ status |-> 200, text |-> c, etag |-> "e1" ] : c \in NormContentInputs }

InitNorm ==
    /\ SetInit
    /\ ret = [ op |-> "init" ]
    /\ NoThreads
    /\ NoOrchestrator
    /\ cache = [ n \in MonSources |-> <<"a", "\n", "b">> ]
    /\ sources = [ n \in MonSources |-> GitHubSource("", "") ]
    /\ mpc = [ n \in MonSources |-> "idle" ]
    /\ mloc = [ n \in MonSources |-> <<>> ]
    /\ nchecks = 0

N_Fetch(n) == M_FetchFrom(n, NormResponseInputs)

NextNorm ==
    \/ \E n \in MonSources : M_CheckForCommits(n)
    \/ \E n \in MonSources : N_Fetch(n)
    \/ \E n \in MonSources : M_DetectChanges(n)
    \/ \E n \in MonSources : M_WriteCache(n)
    \/ \E n \in MonSources : M_QueuePut(n)
    \/ get_pending_changes

SpecNorm == InitNorm /\ [][NextNorm]_vars

\* the lines of a content that are neither blank nor comments
PatternLines(content) ==
    { line \in Range(splitlines(content)) :
        /\ strip(line) # <<>>
        /\ ~startswith(line, "#")
        /\ ~startswith(line, "!") }

\* C33: a poll whose fetched content has the pattern lines of the cached
\* content, and differs from it in blank lines or comment lines only, ends
\* without a change event
C33_NormalizedDiff ==
    [][ \A n \in MonSources :
          ( /\ mpc[n] = "detect"
            /\ mpc'[n] # "detect"
            /\ mloc[n].old_content # None
            /\ PatternLines(mloc[n].old_content[1]) = PatternLines(mloc[n].new_content) )
          => mpc'[n] = "idle" ]_vars

-----------------------------------------------------------------------------
(* Properties of the branch pointers                                        *)

\* C34: the branch main always exists and its head is a stored commit; a
\* step that stores a commit (commit_changes, rollback_to_commit) makes that
\* commit the head of the current branch and leaves the head of every other
\* branch as it was
C34_BranchPointers ==
    /\ []( /\ "main" \in DOMAIN branches
           /\ branches["main"] \in DOMAIN commits )
    /\ [][ commits' # commits =>
             /\ current_branch' = current_branch
             /\ DOMAIN branches' = DOMAIN branches \cup {current_branch}
             /\ branches'[current_branch] \in DOMAIN commits' \ DOMAIN commits
             /\ branches'[current_branch] = head_commit'
             /\ \A b \in DOMAIN branches \ {current_branch} :
                    branches'[b] = branches[b] ]_vars

\* C34 witness: a commit was made on another branch than main, whose head it
\* is, and main has kept its head
C34_Witness ==
    /\ current_branch # "main"
    /\ ret.op = "commit_changes"
    /\ branches[current_branch] = head_commit
    /\ head_commit \in DOMAIN commits
    /\ branches["main"] = _init_repository.head_commit
    /\ branches["main"] # head_commit

-----------------------------------------------------------------------------
(* SpecHist: the health worker, with auto_rollback off, after it has taken   *)
(* 99 or 100 healthy samples                                                *)

\* samples taken in SpecHist
MaxHistPolls == 4

InitHist ==
    /\ SetInit
    /\ ret = [ op |-> "init" ]
    /\ NoThreads
    /\ NoMonitor
    /\ config \in { AutoUpdateConfig(ve, FALSE, MaxAttempts) : ve \in BOOLEAN }
    /\ running = TRUE
    /\ rollback_count = 0
    /\ last_update = 0
    /\ health_history \in { [ i \in 1 .. n |-> "healthy" ] :
                              n \in {HealthHistoryCap - 1, HealthHistoryCap} }
    /\ pattern_engine \in IndexInputs
    /\ change_queue = <<>>
    /\ validation_queue = <<>>
    /\ update_queue = <<>>
    /\ failure_log = <<>>
    /\ wpc = [ w \in Workers |-> "idle" ]
    /\ wloc = [ w \in Workers |-> <<>> ]
    /\ nevents = 0
    /\ npolls = 0

\* one iteration of _health_monitor
H_PollAgain ==
    \E m \in MetricsInputs :
        /\ npolls < MaxHistPolls
        /\ npolls' = npolls + 1
        /\ H_Collect(m)

NextHist == H_PollAgain \/ Stop

SpecHist == InitHist /\ [][NextHist]_vars

\* the last n elements of seq, all of it when it has fewer
LastOf(seq, n) ==
    IF Len(seq) <= n THEN seq ELSE SubSeq(seq, Len(seq) - n + 1, Len(seq))

\* C35: health_history never holds more than 100 samples, and an iteration
\* of the health worker leaves in it the sample just taken after the samples
\* it held, the oldest dropped when that makes more than 100
C35_BoundedHistory ==
    /\ [](Len(health_history) <= HealthHistoryCap)
    /\ [][ npolls' # npolls =>
             health_history' = LastOf(Append(health_history, wloc'["health"].status),
                                      HealthHistoryCap) ]_vars

\* C35 witness: more samples were taken than fit, the buffer is full and its
\* last two are a degraded and a critical sample in the order they came
C35_Witness ==
    /\ npolls = 3
    /\ Len(health_history) = HealthHistoryCap
    /\ health_history[HealthHistoryCap - 1] = "degraded"
    /\ health_history[HealthHistoryCap] = "critical"
    /\ wloc["health"].status = "critical"

-----------------------------------------------------------------------------
(* The rollback ceiling                                                     *)

\* C36: rollback_count is never greater than config.max_rollback_attempts,
\* also when the update worker and the health worker are both inside
\* _perform_rollback
C36_RollbackCeiling ==
    rollback_count <= config.max_rollback_attempts

\* the commit of the last successful update: the latest "Auto-update from"
\* commit made by the time kept in last_update, 0 when no update succeeded
LastUpdateCommit ==
    LET done == { c \in DOMAIN commits :
                    /\ commits[c].message.text = "Auto-update from"
                    /\ commits[c].timestamp <= last_update }
    IN  IF done = {} THEN 0 ELSE CHOOSE c \in done : \A d \in done : d <= c

\* the successful rollbacks since the last successful update (or since the
\* start): the rollback commits made after that update's commit
RollbacksSinceUpdate ==
    Cardinality({ c \in RollbackCommits : c > LastUpdateCommit })

-----------------------------------------------------------------------------
(* SpecStart: start() and stop() of a constructed orchestrator, called by    *)
(* one thread                                                               *)

\* calls of start() and stop() in SpecStart
MaxStartCalls == 4

\* __init__: not running, no engine, no thread created
InitStart ==
    /\ SetInit
    /\ ret = [ op |-> "init" ]
    /\ NoThreads
    /\ NoMonitor
    /\ config \in { AutoUpdateConfig(ve, ar, m) :
                      ve \in BOOLEAN, ar \in BOOLEAN, m \in 1 .. MaxAttempts }
    /\ running = FALSE
    /\ rollback_count = 0
    /\ last_update = 0
    /\ health_history = <<>>
    /\ pattern_engine = None
    /\ change_queue = <<>>
    /\ validation_queue = <<>>
    /\ update_queue = <<>>
    /\ failure_log = <<>>
    /\ wpc = [ w \in Workers |-> "unstarted" ]
    /\ wloc = [ w \in Workers |-> <<>> ]
    /\ nevents = 0
    /\ npolls = 0

\* _initialize_pattern_engine: the engine is constructed and stored, then
\* initialize() is called on it; OptimizedPatternEngine defines no such
\* method, the AttributeError is logged and raised again
_initialize_pattern_engine(built) ==
    [ pattern_engine |-> Some(built), raised |-> TRUE ]

\* start(): return when running; else set running and initialize the engine,
\* whose exception ends the call before start_monitoring,
\* _start_worker_threads and _schedule_tasks
Start ==
    \E built \in IndexInputs :
        /\ ncalls < MaxStartCalls
        /\ ncalls' = ncalls + 1
        /\ IF running
           THEN /\ ret' = [ op |-> "start", result |-> "already_running" ]
                /\ UNCHANGED <<running, pattern_engine, wpc>>
           ELSE LET r == _initialize_pattern_engine(built)
                IN  /\ running' = TRUE
                    /\ pattern_engine' = r.pattern_engine
                    /\ ret' = [ op |-> "start",
                                result |-> IF r.raised THEN "raised" ELSE "started" ]
                    /\ wpc' = IF r.raised THEN wpc
                              ELSE [ w \in Workers |-> "idle" ]
        /\ UNCHANGED <<vcsVars, tpc, tloc, monVars, config, rollback_count,
                       last_update, health_history, change_queue,
                       validation_queue, update_queue, failure_log, wloc,
                       nevents, npolls>>

\* stop(): return when not running; else clear running (no thread to join)
StopCall ==
    /\ ncalls < MaxStartCalls
    /\ ncalls' = ncalls + 1
    /\ ret' = [ op |-> "stop", result |-> IF running THEN "stopped" ELSE "not_running" ]
    /\ running' = FALSE
    /\ UNCHANGED <<vcsVars, tpc, tloc, monVars, config, rollback_count, last_update,
                   health_history, pattern_engine, change_queue,
                   validation_queue, update_queue, failure_log, wpc, wloc,
                   nevents, npolls>>

NextStart == Start \/ StopCall

SpecStart == InitStart /\ [][NextStart]_vars

\* C38: a start() that failed in _initialize_pattern_engine leaves running
\* false and every worker thread unstarted, and the start() called next
\* initializes again instead of returning as already running
C38_FailedStart ==
    [][ /\ (ret'.op = "start" /\ ret'.result = "raised")
             => /\ ~running'
                /\ \A w \in Workers : wpc'[w] = "unstarted"
        /\ (ret.op = "start" /\ ret.result = "raised" /\ ret'.op = "start")
             => ret'.result # "already_running" ]_vars

-----------------------------------------------------------------------------
(* SpecBatch: validate_patterns_batch called on lists of (pattern, source)   *)

\* a pattern of PatternKeyLen characters "a" followed by last
LongPattern(last) == [ i \in 1 .. PatternKeyLen |-> "a" ] \o <<last>>

\* the lists submitted: two short patterns of one source; two patterns of one
\* source that differ in their 51st character; the same two of two sources;
\* a pattern that does not compile with one that does
BatchInputs ==
    { << <<<<"a", ".", "c", "o">>, "easylist">>, <<<<"b", ".", "c", "o">>, "easylist">> >>,
      << <<LongPattern("b"), "easylist">>, <<LongPattern("c"), "easylist">> >>,
      << <<LongPattern("b"), "easylist">>, <<LongPattern("c"), "adguard">> >>,
      << <<<<"(">>, "easylist">>, <<<<"a", ".", "c", "o">>, "easylist">> >> }

InitBatch ==
    /\ SetInit
    /\ ret = [ op |-> "init" ]
    /\ NoThreads
    /\ NoOrchestrator
    /\ NoMonitor

\* PatternValidator.validate_patterns_batch(patterns)
ValidatePatternsBatch ==
    \E patterns \in BatchInputs :
        \E results \in validate_patterns_batch(patterns) :
            /\ ret' = [ op |-> "validate_patterns_batch", patterns |-> patterns,
                        value |-> results ]
            /\ UNCHANGED <<vcsVars, notApi>>

NextBatch == ValidatePatternsBatch

SpecBatch == InitBatch /\ [][NextBatch]_vars

\* C39: the dict validate_patterns_batch returns has one entry for each
\* distinct (pattern, source) pair of the list it was given
C39_PerPattern ==
    ret.op = "validate_patterns_batch"
    => Cardinality(DOMAIN ret.value) = Cardinality(Range(ret.patterns))

-----------------------------------------------------------------------------
(* SpecKey: an engine built from a cache file with one domain, then looked   *)
(* up with URLs on the host of that domain                                   *)

\* the pieces the domains and URLs of SpecKey are made of
T_CO == <<"t", ".", "c", "o">>

X_IO == <<"x", ".", "i", "o">>

WWW == <<"w", "w", "w", ".">>

HTTP == <<"h", "t", "t", "p", ":", "/", "/">>

HTTPS == <<"h", "t", "t", "p", "s", ":", "/", "/">>

SLASH_P == <<"/", "p">>

SLASH_A == <<"/", "a">>

KeyHosts == { T_CO, X_IO }

\* the ways the cache file writes the domain of host: host, "www." host,
\* "http://" host, "http://www." host, "https://www." host "/p", host "/p"
DomainForms(host) ==
    { host,
      WWW \o host,
      HTTP \o host,
      HTTP \o WWW \o host,
      HTTPS \o WWW \o host \o SLASH_P,
      host \o SLASH_P }

\* URLs on host: "http://" host "/a", "https://www." host, host,
\* "www." host "/a"
UrlsOn(host) ==
    { HTTP \o host \o SLASH_A,
      HTTPS \o WWW \o host,
      host,
      WWW \o host \o SLASH_A }

\* mailtracker_cache.json with one item of that domain, no GitHub file
KeyData(domain) ==
    [ mailtracker |-> Some(<< [ domain |-> domain, pattern |-> <<"p", "1">> ] >>),
      github |-> None ]

InitKey ==
    /\ SetInit
    /\ ret = [ op |-> "init" ]
    /\ tpc = [ t \in {"main"} |-> "idle" ]
    /\ tloc = [ t \in {"main"} |-> <<>> ]
    /\ ncalls = 0
    /\ NoMonitor
    /\ config = <<>>
    /\ running = FALSE
    /\ rollback_count = 0
    /\ last_update = 0
    /\ health_history = <<>>
    /\ pattern_engine = None
    /\ change_queue = <<>>
    /\ validation_queue = <<>>
    /\ update_queue = <<>>
    /\ failure_log = <<>>
    /\ wpc = <<>>
    /\ wloc = <<>>
    /\ nevents = 0
    /\ npolls = 0

\* OptimizedPatternEngine() with the domain of a host in the cache file
K_New ==
    \E host \in KeyHosts :
        \E domain \in DomainForms(host) :
            /\ pattern_engine = None
            /\ pattern_engine' = Some(BuildIndex(KeyData(domain)))
            /\ tloc' = [tloc EXCEPT !["main"] = [ host |-> host, domain |-> domain ]]
            /\ ret' = [ op |-> "OptimizedPatternEngine" ]
            /\ UNCHANGED <<notIdx, tpc, ncalls>>

\* fast_domain_lookup of a URL on that host
K_Lookup ==
    /\ pattern_engine # None
    /\ pattern_engine[1].stats.total_lookups < MaxLookups
    /\ \E url \in UrlsOn(tloc["main"].host) :
         LET r == fast_domain_lookup(pattern_engine[1], Some(url))
         IN  /\ pattern_engine' = Some(r.engine)
             /\ ret' = [ op |-> "fast_domain_lookup", url |-> Some(url),
                         value |-> r.value ]
    /\ UNCHANGED <<notIdx, thrVars>>

\* _extract_base_domain(domain), and _extract_base_domain of what it returned
K_Extract ==
    \E host \in KeyHosts :
        \E domain \in DomainForms(host) :
            /\ ret' = [ op |-> "_extract_base_domain", domain |-> domain,
                        value |-> _extract_base_domain(domain),
                        again |-> _extract_base_domain(_extract_base_domain(domain)) ]
            /\ UNCHANGED <<notIdx, pattern_engine, thrVars>>

NextKey == K_New \/ K_Lookup \/ K_Extract

SpecKey == InitKey /\ [][NextKey]_vars

\* C40: applying _extract_base_domain to its own result changes nothing, and
\* an engine whose index was built from a domain of a host returns an entry
\* for fast_domain_lookup of every URL on that host
C40_KeyNormalization ==
    /\ ret.op = "_extract_base_domain" => ret.again = ret.value
    /\ (ret.op = "fast_domain_lookup" /\ tloc["main"] # <<>>) => ret.value # None

=============================================================================
